---- MODULE Spec2Model ----
(***************************************************************************)
(* QuickLLM: the request dispatcher of the background script               *)
(* (src/src/core/background.js, class BackgroundManager), the provider     *)
(* request builders of its three adapters, and the stream ownership logic  *)
(* of the content script (src/unnamed/part_003, class ContentManager).     *)
(*                                                                         *)
(* Three specifications share the variables:                               *)
(*   Spec       the background process: processWithLLM and cancelStream    *)
(*              messages arrive, the provider answers, streams are read    *)
(*              chunk by chunk;                                            *)
(*   BuildSpec  the provider request an adapter builds (message list,      *)
(*              prompt, mergeExtraOptions), for drawn inputs;              *)
(*   PageSpec   the ContentManager of one page.                            *)
(***************************************************************************)
EXTENDS Integers, Sequences, FiniteSets, TLC

VARIABLES
    activeStreams,  \* BackgroundManager.activeStreams: streamId -> controller
    nReqs,          \* the processWithLLM messages received so far
    reqs,           \* the handleLLMRequest invocations not yet answered
    answered,       \* the invocation that answered last, as it ended
    nChunks,        \* the chunks the provider has delivered so far
    cancelReply,    \* the last cancelStream handled and its sendResponse
    build,          \* BuildSpec: the drawn adapter inputs and the request built
    page            \* PageSpec: the ContentManager and what it has on screen

vars == <<activeStreams, nReqs, reqs, answered, nChunks, cancelReply, build, page>>

(***************************************************************************)
(* Bounds.                                                                 *)
(***************************************************************************)
\* processWithLLM messages the background handles in one run
MaxReqs == 2
\* chunks the provider delivers in one run, over all streams
MaxChunks == 2
\* prompt modals a page opens in one run
MaxModals == 2
\* processWithProfile invocations of a page in one run
MaxStreams == 2
\* streamUpdate messages a page receives in one run
MaxUpdates == 2
\* stored profiles
MaxProfiles == 2

(***************************************************************************)
(* Values.  A JavaScript value is a tagged tuple, so that values of        *)
(* different types compare unequal: <<"str", s>>, <<"bool", b>>,           *)
(* <<"num", n>>, <<"msgs", list>>.  An object is a function from its own   *)
(* keys to values.                                                         *)
(***************************************************************************)
Str(s) == <<"str", s>>
Bool(b) == <<"bool", b>>
Num(n) == <<"num", n>>
Msgs(l) == <<"msgs", l>>

EmptyObject == [k \in {} |-> Str("")]

\* { ...a, ...b }: the keys of both, b winning where both have the key
Spread(a, b) ==
    [k \in DOMAIN a \cup DOMAIN b |-> IF k \in DOMAIN b THEN b[k] ELSE a[k]]

(***************************************************************************)
(* mergeExtraOptions and JSON.parse.                                       *)
(*                                                                         *)
(* ExtraOptionsTexts are the texts of profile.extraOptions the model       *)
(* draws; JSONParse gives, for each, what JSON.parse does with it: a throw *)
(* (ok = FALSE) or a value, of which own holds the own enumerable          *)
(* properties that an object spread copies (the keys of an object, the     *)
(* indices of an array, nothing for null).  The empty text also stands for *)
(* a profile without extraOptions: both are falsy.                         *)
(***************************************************************************)
ExtraOptionsTexts ==
    { "",
      "{not json",
      "null",
      "[7]",
      "{}",
      "{\"temperature\":1}",
      "{\"model\":\"ignored\",\"temperature\":1}",
      "{\"stream\":true,\"max_tokens\":10}",
      "{\"stream\":false,\"messages\":[],\"prompt\":\"p\",\"system\":\"x\"}" }

JSONParse(text) ==
    CASE text = "null" ->
           [ok |-> TRUE, kind |-> "null", own |-> EmptyObject]
      [] text = "[7]" ->
           [ok |-> TRUE, kind |-> "array", own |-> [k \in {"0"} |-> Num(7)]]
      [] text = "{}" ->
           [ok |-> TRUE, kind |-> "object", own |-> EmptyObject]
      [] text = "{\"temperature\":1}" ->
           [ok |-> TRUE, kind |-> "object", own |-> [temperature |-> Num(1)]]
      [] text = "{\"model\":\"ignored\",\"temperature\":1}" ->
           [ok |-> TRUE, kind |-> "object",
            own |-> [model |-> Str("ignored"), temperature |-> Num(1)]]
      [] text = "{\"stream\":true,\"max_tokens\":10}" ->
           [ok |-> TRUE, kind |-> "object",
            own |-> [stream |-> Bool(TRUE), max_tokens |-> Num(10)]]
      [] text = "{\"stream\":false,\"messages\":[],\"prompt\":\"p\",\"system\":\"x\"}" ->
           [ok |-> TRUE, kind |-> "object",
            own |-> [stream |-> Bool(FALSE), messages |-> Msgs(<<>>),
                     prompt |-> Str("p"), system |-> Str("x")]]
      [] OTHER ->
           [ok |-> FALSE, kind |-> "throw", own |-> EmptyObject]

\* a merge that lets the parsed extra options overwrite the base options
MergeExtraWins(baseOptions, extraOptions) ==
    IF extraOptions = "" THEN baseOptions
    ELSE IF ~JSONParse(extraOptions).ok THEN baseOptions
    ELSE Spread(baseOptions, JSONParse(extraOptions).own)

\* a merge that, on a parse failure, returns the still empty parsedExtraOptions
MergeInvalidReturnsParsed(baseOptions, extraOptions) ==
    IF extraOptions = "" THEN baseOptions
    ELSE IF ~JSONParse(extraOptions).ok THEN EmptyObject
    ELSE Spread(JSONParse(extraOptions).own, baseOptions)

mergeExtraOptions(baseOptions, extraOptions) ==
    IF extraOptions = "" THEN baseOptions
    ELSE IF ~JSONParse(extraOptions).ok THEN baseOptions
    ELSE Spread(JSONParse(extraOptions).own, baseOptions)

(***************************************************************************)
(* The provider request of each adapter.                                   *)
(***************************************************************************)
AnthropicMaxTokens == 4096

Message(role, content) == [role |-> role, content |-> content]

\* a message list with the text first
OpenAIMessagesTextFirst(systemPrompt, userPrompt, text) ==
    <<Message("user", text)>>
    \o (IF systemPrompt # "" THEN <<Message("system", systemPrompt)>> ELSE <<>>)
    \o (IF userPrompt # "" THEN <<Message("user", userPrompt)>> ELSE <<>>)

OpenAIMessages(systemPrompt, userPrompt, text) ==
    (IF systemPrompt # "" THEN <<Message("system", systemPrompt)>> ELSE <<>>)
    \o (IF userPrompt # "" THEN <<Message("user", userPrompt)>> ELSE <<>>)
    \o <<Message("user", text)>>

AnthropicMessages(userPrompt, text) ==
    (IF userPrompt # "" THEN <<Message("user", userPrompt)>> ELSE <<>>)
    \o <<Message("user", text)>>

\* a prompt whose parts are joined without the blank lines
OllamaPromptJoined(systemPrompt, userPrompt, text) ==
    systemPrompt \o userPrompt \o text

OllamaPrompt(systemPrompt, userPrompt, text) ==
    (IF systemPrompt # "" THEN systemPrompt \o "\n\n" ELSE "")
    \o (IF userPrompt # "" THEN userPrompt \o "\n\n" ELSE "")
    \o text

OpenAIBaseOptions(model, systemPrompt, userPrompt, text) ==
    [model |-> Str(model),
     messages |-> Msgs(OpenAIMessages(systemPrompt, userPrompt, text))]

\* base options that carry the system prompt as the first message
AnthropicSystemAsMessage(model, systemPrompt, userPrompt, text) ==
    [model |-> Str(model),
     messages |-> Msgs((IF systemPrompt # ""
                        THEN <<Message("system", systemPrompt)>> ELSE <<>>)
                       \o AnthropicMessages(userPrompt, text)),
     max_tokens |-> Num(AnthropicMaxTokens)]

AnthropicBaseOptions(model, systemPrompt, userPrompt, text) ==
    Spread([model |-> Str(model),
            messages |-> Msgs(AnthropicMessages(userPrompt, text)),
            max_tokens |-> Num(AnthropicMaxTokens)],
           IF systemPrompt # "" THEN [system |-> Str(systemPrompt)]
           ELSE EmptyObject)

OllamaBaseOptions(model, systemPrompt, userPrompt, text) ==
    [model |-> Str(model),
     prompt |-> Str(OllamaPrompt(systemPrompt, userPrompt, text))]

AdapterTypes == {"openai", "anthropic", "ollama"}

BaseOptions(type, model, systemPrompt, userPrompt, text) ==
    CASE type = "openai" -> OpenAIBaseOptions(model, systemPrompt, userPrompt, text)
      [] type = "anthropic" -> AnthropicBaseOptions(model, systemPrompt, userPrompt, text)
      [] type = "ollama" -> OllamaBaseOptions(model, systemPrompt, userPrompt, text)

\* the options object handed to the SDK call (create / generate)
RequestOptions(type, model, systemPrompt, userPrompt, text, isStreaming, extraOptions) ==
    IF isStreaming
    THEN mergeExtraOptions(
             Spread(BaseOptions(type, model, systemPrompt, userPrompt, text),
                    [stream |-> Bool(TRUE)]),
             extraOptions)
    ELSE mergeExtraOptions(BaseOptions(type, model, systemPrompt, userPrompt, text),
                           extraOptions)

(***************************************************************************)
(* The background process.                                                 *)
(*                                                                         *)
(* A processWithLLM message is [profile, userPrompt, text, isStreaming,    *)
(* streamId]; NoProfile and NoId stand for an absent profile and an absent *)
(* streamId.  The page draws a new stream id for every request it sends    *)
(* (ContentManager.processWithProfile), so the id a message supplies is    *)
(* new: <<"stream", n>> for the n-th message.  The id the background       *)
(* generates when none is supplied is <<"gen", n>>.  Messages come from    *)
(* content scripts, so sender.tab is present.                              *)
(***************************************************************************)
NoProfile == [type |-> "none"]
NoId == <<"none", 0>>

ModelName == "m"
TextToProcess == "T"

Profile(type, systemPrompt, extraOptions) ==
    [type |-> type, model |-> ModelName, systemPrompt |-> systemPrompt,
     extraOptions |-> extraOptions]

\* the profiles of the messages the background receives under Spec
Profiles ==
    { NoProfile,
      Profile("custom", "S", ""),
      Profile("openai", "S", "{not json"),
      Profile("anthropic", "", "{\"stream\":true,\"max_tokens\":10}"),
      Profile("ollama", "S", "") }

UserPrompts == {"", "U"}

SuppliedId(n) == <<"stream", n>>
GeneratedId(n) == <<"gen", n>>

\* the error messages a provider call or a stream read fails with
ProviderErrors == {"401 Incorrect API key"}

\* the completion text of a non-streaming call
Completions == {"done"}

\* the text the k-th chunk of a stream can carry
Alphabet == <<"a", "b", "c", "d">>
Letter(k) == Alphabet[((k - 1) % Len(Alphabet)) + 1]

\* A chunk either carries a text delta or is another event of the stream
\* with no content (a role or finish chunk, message_start, the done marker).
Chunks(k) ==
    { [delta |-> FALSE, text |-> ""],
      [delta |-> TRUE, text |-> Letter(k)] }

\* chunk.choices[0]?.delta?.content || '', chunk.delta.text || '' of a
\* content_block_delta, chunk.response
ChunkContent(chunk) == IF chunk.delta THEN chunk.text ELSE ""

\* a variant that forwards and returns the latest fragment only
AccumulateLatestOnly(fullResponse, content) == content

\* fullResponse += content
Accumulate(fullResponse, content) == fullResponse \o content

StreamUpdate(content, streamId) ==
    [type |-> "streamUpdate", content |-> content, streamId |-> streamId]

SuccessResponse(response, streamId) ==
    [success |-> TRUE, response |-> response, streamId |-> streamId]

\* a failure response that replaces the error's message by a fixed text
FailureResponseGeneric(message) ==
    [success |-> FALSE, error |-> "Request failed"]

FailureResponse(message) ==
    [success |-> FALSE, error |-> message]

\* the state of one handleLLMRequest invocation
NewRequest(message, streamId) ==
    [message |-> message,
     streamId |-> streamId,       \* currentStreamId
     pc |-> "start",
     cancelled |-> FALSE,         \* streamController.cancelled
     cancelHandled |-> FALSE,     \* a cancelStream for streamId was handled
     adapter |-> "none",          \* the adapter processWithLLM dispatched to
     calls |-> 0,                 \* provider calls issued
     options |-> EmptyObject,     \* the options of the provider call
     fullResponse |-> "",
     frags |-> <<>>,              \* the content of the chunks read so far
     updates |-> <<>>]            \* the streamUpdate messages sent, in order

\* const currentStreamId = streamId || `stream_${Date.now()}_...`
CurrentStreamId(message, n) ==
    IF message.streamId # NoId THEN message.streamId ELSE GeneratedId(n)

\* this.activeStreams.set(streamId, streamController): the controller is the
\* one of request n
Register(streams, streamId, n) ==
    [s \in DOMAIN streams \cup {streamId} |-> IF s = streamId THEN n ELSE streams[s]]

\* this.activeStreams.delete(streamId)
Delete(streams, streamId) ==
    [s \in DOMAIN streams \ {streamId} |-> streams[s]]

\* a finally block that leaves the entry in the registry
ReleaseKeepsEntry(streams, streamId) == streams

\* a finally block that empties the registry
ReleaseClearsRegistry(streams, streamId) == [s \in {} |-> 0]

\* the finally block of processWithLLM
Release(streams, streamId) ==
    IF streamId # NoId /\ streamId \in DOMAIN streams
    THEN Delete(streams, streamId)
    ELSE streams

\* The processWithLLM messages that can arrive as the n-th request.
\* processWithProfile sends the id its page generated with every profile,
\* whatever its type.  A request without a stream id or without a profile
\* is one no page of the repository sends; handleLLMRequest generates an id
\* for it, and the model takes two of them: the request without a profile
\* and the non-streaming request with an anthropic profile.
AllMessages(n) ==
    { [type |-> "processWithLLM", profile |-> p, userPrompt |-> "U",
       text |-> TextToProcess, isStreaming |-> b, streamId |-> id] :
        p \in Profiles, b \in BOOLEAN, id \in {NoId, SuppliedId(n)} }

Messages(n) ==
    { m \in AllMessages(n) :
        /\ (m.streamId = NoId) => (m.profile.type \in {"anthropic", "none"})
        /\ (m.profile = NoProfile) => (m.streamId = NoId)
        /\ (m.profile.type = "anthropic" /\ m.streamId = NoId) => ~m.isStreaming }

\* the stream ids a cancelStream message can carry: the id of a request in
\* flight (registered, already cancelled, or never registered because the
\* request does not stream) and the id of the request answered last
CancelIds ==
    {reqs[i].streamId : i \in DOMAIN reqs}
    \cup (IF answered.pc = "done" THEN {answered.streamId} ELSE {})

\* sendResponse(...) of handleLLMRequest: what is kept of a request that ended.
\* n counts the responses sent so far.
Answered(r, response) ==
    [pc |-> "done", message |-> r.message, streamId |-> r.streamId,
     adapter |-> r.adapter, calls |-> r.calls, options |-> r.options,
     response |-> response, updates |-> r.updates,
     n |-> (IF answered.pc = "done" THEN answered.n ELSE 0) + 1]

\* the check of the cancellation flag inside the streaming loop
CancelIgnored(r) == FALSE

CancelObserved(r) == r.cancelled

\* a cancelStream that leaves the entry in the registry
CancelKeepsEntry(streams, streamId) == streams

\* a cancelStream that empties the registry
CancelClearsRegistry(streams, streamId) == [s \in {} |-> 0]

\* this.activeStreams.delete(streamId) of handleCancelStream
CancelEntry(streams, streamId) == Delete(streams, streamId)

\* a dispatch that sends every unknown type to the OpenAI adapter
SelectAdapterDefaultsToOpenAI(type) ==
    CASE type = "anthropic" -> "processWithAnthropic"
      [] type = "ollama" -> "processWithOllama"
      [] OTHER -> "processWithOpenAI"

\* the if / else if chain of processWithLLM; "none": Unsupported profile type
SelectAdapter(type) ==
    CASE type = "openai" -> "processWithOpenAI"
      [] type = "anthropic" -> "processWithAnthropic"
      [] type = "ollama" -> "processWithOllama"
      [] OTHER -> "none"

\* the request an adapter sends: the options it hands to its SDK call
AdapterOptions(adapter, message) ==
    RequestOptions(
        CASE adapter = "processWithOpenAI" -> "openai"
          [] adapter = "processWithAnthropic" -> "anthropic"
          [] adapter = "processWithOllama" -> "ollama",
        message.profile.model, message.profile.systemPrompt, message.userPrompt,
        message.text, message.isStreaming, message.profile.extraOptions)

\* a registration that stores a handle for every request, streaming or not
RegisterAlways(streams, message, streamId, n) == Register(streams, streamId, n)

\* a registration that stores no handle
RegisterNever(streams, message, streamId, n) == streams

\* if (isStreaming && streamId) this.activeStreams.set(streamId, controller)
RegisterStream(streams, message, streamId, n) ==
    IF message.isStreaming /\ streamId # NoId
    THEN Register(streams, streamId, n)
    ELSE streams

Put(f, i, r) == [j \in DOMAIN f \cup {i} |-> IF j = i THEN r ELSE f[j]]

\* an answered request that stays among the requests in flight
RemoveNothing(f, i) == f

Remove(f, i) == [j \in DOMAIN f \ {i} |-> f[j]]

\* a break out of the streaming loop that throws instead of returning
CancelledThrows(r) == [success |-> FALSE, error |-> "Request cancelled"]

\* break; return fullResponse: the response of a stream whose loop saw the
\* cancellation flag
CancelledResult(r) == SuccessResponse(r.fullResponse, r.streamId)

\* request i ends: its response is sent and the finally block of
\* processWithLLM releases its registry entry
Finish(i, response) ==
    /\ answered' = Answered(reqs[i], response)
    /\ reqs' = Remove(reqs, i)
    /\ activeStreams' = Release(activeStreams, reqs[i].streamId)

(***************************************************************************)
(* handleLLMRequest up to its first suspension: the profile check, the     *)
(* stream id, processWithLLM's registration and dispatch on profile.type,  *)
(* the adapter's check of the cancellation flag and the provider call.     *)
(* No other handler runs in between: all of it is synchronous.             *)
(***************************************************************************)
HandleLLMRequest(message) ==
    /\ nReqs < MaxReqs
    /\ nReqs' = nReqs + 1
    /\ LET n == nReqs + 1
           streamId == CurrentStreamId(message, n)
           r == NewRequest(message, streamId)
           registered == RegisterStream(activeStreams, message, streamId, n)
       IN IF message.profile = NoProfile
          THEN /\ answered' = Answered([r EXCEPT !.streamId = NoId],
                                       FailureResponse("No profile available"))
               /\ UNCHANGED <<reqs, activeStreams>>
          ELSE IF SelectAdapter(message.profile.type) = "none"
          THEN /\ answered' = Answered(r, FailureResponse("Unsupported profile type"))
               /\ activeStreams' = Release(registered, streamId)
               /\ UNCHANGED reqs
          ELSE IF r.cancelled
          THEN /\ answered' = Answered(
                      [r EXCEPT !.adapter = SelectAdapter(message.profile.type)],
                      FailureResponse("Request cancelled"))
               /\ activeStreams' = Release(registered, streamId)
               /\ UNCHANGED reqs
          ELSE /\ reqs' = Put(reqs, n,
                      [r EXCEPT !.pc = "calling",
                                !.adapter = SelectAdapter(message.profile.type),
                                !.calls = 1,
                                !.options = AdapterOptions(
                                    SelectAdapter(message.profile.type), message)])
               /\ activeStreams' = registered
               /\ UNCHANGED answered
    /\ UNCHANGED <<nChunks, cancelReply, build, page>>

\* a non-streaming call whose completion is also pushed as a streamUpdate
CompletionReturnedAndPushed(i, text) ==
    /\ reqs[i].pc = "calling"
    /\ ~reqs[i].message.isStreaming
    /\ answered' = Answered(
           [reqs[i] EXCEPT !.updates = <<StreamUpdate(text, reqs[i].streamId)>>],
           SuccessResponse(text, reqs[i].streamId))
    /\ reqs' = Remove(reqs, i)
    /\ activeStreams' = Release(activeStreams, reqs[i].streamId)
    /\ UNCHANGED <<nReqs, nChunks, cancelReply, build, page>>

\* await ...create(options) / generate(options) of a non-streaming request
\* resolves: the completion text is returned and sent as the response
CompletionReturned(i, text) ==
    /\ reqs[i].pc = "calling"
    /\ ~reqs[i].message.isStreaming
    /\ Finish(i, SuccessResponse(text, reqs[i].streamId))
    /\ UNCHANGED <<nReqs, nChunks, cancelReply, build, page>>

\* the provider call of a streaming request resolves with the stream
StreamOpened(i) ==
    /\ reqs[i].pc = "calling"
    /\ reqs[i].message.isStreaming
    /\ reqs' = [reqs EXCEPT ![i].pc = "streaming"]
    /\ UNCHANGED <<activeStreams, nReqs, answered, nChunks, cancelReply, build, page>>

\* a rejected provider call that is issued once more instead of failing
ProviderRejectsAndRetries(i, error) ==
    /\ reqs[i].pc = "calling"
    /\ reqs' = [reqs EXCEPT ![i].calls = @ + 1]
    /\ UNCHANGED <<activeStreams, nReqs, answered, nChunks, cancelReply, build, page>>

\* the provider call rejects: the error reaches the catch of handleLLMRequest
ProviderRejects(i, error) ==
    /\ reqs[i].pc = "calling"
    /\ Finish(i, FailureResponse(error))
    /\ UNCHANGED <<nReqs, nChunks, cancelReply, build, page>>

\* one iteration of for await (const chunk of stream)
StreamChunk(i, chunk) ==
    /\ reqs[i].pc = "streaming"
    /\ IF CancelObserved(reqs[i])
       THEN \* break; return fullResponse
            /\ Finish(i, CancelledResult(reqs[i]))
            /\ UNCHANGED nChunks
       ELSE /\ nChunks < MaxChunks
            /\ nChunks' = nChunks + 1
            /\ LET content == ChunkContent(chunk)
                   full == Accumulate(reqs[i].fullResponse, content)
               IN reqs' = [reqs EXCEPT
                      ![i].frags = Append(@, content),
                      ![i].fullResponse = IF content # "" THEN full ELSE @,
                      ![i].updates = IF content # ""
                                     THEN Append(@, StreamUpdate(full, reqs[i].streamId))
                                     ELSE @]
            /\ UNCHANGED <<activeStreams, answered>>
    /\ UNCHANGED <<nReqs, cancelReply, build, page>>

\* the stream is exhausted: return fullResponse
StreamEnds(i) ==
    /\ reqs[i].pc = "streaming"
    /\ Finish(i, SuccessResponse(reqs[i].fullResponse, reqs[i].streamId))
    /\ UNCHANGED <<nReqs, nChunks, cancelReply, build, page>>

\* reading the stream throws
StreamFails(i, error) ==
    /\ reqs[i].pc = "streaming"
    /\ Finish(i, FailureResponse(error))
    /\ UNCHANGED <<nReqs, nChunks, cancelReply, build, page>>

CancelReply(streamId, success) == [streamId |-> streamId, success |-> success]

\* history: the requests in flight with this id have had a cancelStream handled
Mark(rs, streamId) ==
    [i \in DOMAIN rs |-> IF rs[i].streamId = streamId
                         THEN [rs[i] EXCEPT !.cancelHandled = TRUE] ELSE rs[i]]

HandleCancelStream(streamId) ==
    /\ IF streamId # NoId /\ streamId \in DOMAIN activeStreams
       THEN /\ reqs' = Mark([reqs EXCEPT ![activeStreams[streamId]].cancelled = TRUE],
                             streamId)
            /\ activeStreams' = CancelEntry(activeStreams, streamId)
            /\ cancelReply' = CancelReply(streamId, TRUE)
       ELSE /\ reqs' = Mark(reqs, streamId)
            /\ cancelReply' = CancelReply(streamId, FALSE)
            /\ UNCHANGED activeStreams
    /\ UNCHANGED <<nReqs, answered, nChunks, build, page>>

NoRequest == [pc |-> "none"]
NoReply == [streamId |-> NoId, success |-> FALSE]
NoBuild == [stage |-> "none"]
NoPage == [currentModal |-> 0, currentStreamId |-> NoId]

Init ==
    /\ activeStreams = [s \in {} |-> 0]
    /\ nReqs = 0
    /\ reqs = [i \in {} |-> NoRequest]
    /\ answered = NoRequest
    /\ nChunks = 0
    /\ cancelReply = NoReply
    /\ build = NoBuild
    /\ page = NoPage

Next ==
    \/ \E m \in Messages(nReqs + 1) : HandleLLMRequest(m)
    \/ \E s \in CancelIds : HandleCancelStream(s)
    \/ \E i \in DOMAIN reqs, c \in Completions : CompletionReturned(i, c)
    \/ \E i \in DOMAIN reqs : StreamOpened(i)
    \/ \E i \in DOMAIN reqs, e \in ProviderErrors : ProviderRejects(i, e)
    \/ \E i \in DOMAIN reqs : \E c \in Chunks(Len(reqs[i].frags) + 1) : StreamChunk(i, c)
    \/ \E i \in DOMAIN reqs : StreamEnds(i)
    \/ \E i \in DOMAIN reqs, e \in ProviderErrors : StreamFails(i, e)

Spec == Init /\ [][Next]_vars

(***************************************************************************)
(* Claims about the background process, checked under Spec.                *)
(***************************************************************************)
NonEmpty(frags) == SelectSeq(frags, LAMBDA f : f # "")

RECURSIVE ConcatAll(_)
ConcatAll(texts) ==
    IF texts = <<>> THEN "" ELSE Head(texts) \o ConcatAll(Tail(texts))

RECURSIVE Cumulative(_, _, _)
\* the streamUpdate messages for fragments texts[k..], with streamId
Cumulative(texts, k, streamId) ==
    IF k > Len(texts) THEN <<>>
    ELSE <<StreamUpdate(ConcatAll(SubSeq(texts, 1, k)), streamId)>>
         \o Cumulative(texts, k + 1, streamId)

\* C1: once a cancelStream for the stream id of a request has been handled,
\* no further streamUpdate is sent for that id, whatever the provider still
\* delivers, and the registry does not contain the id, then and afterwards.
C1_CancelStopsForwarding ==
    [][\A i \in DOMAIN reqs :
          reqs[i].cancelHandled =>
              /\ reqs[i].streamId \notin DOMAIN activeStreams
              /\ reqs[i].streamId \notin DOMAIN activeStreams'
              /\ i \in DOMAIN reqs' => reqs'[i].updates = reqs[i].updates]_vars

\* C1 witness: a stream was cancelled after its second update ("ab") and has
\* since ended: its request was answered with what had been forwarded.
C1_Witness ==
    /\ answered.pc = "done"
    /\ answered.message.isStreaming
    /\ cancelReply = CancelReply(answered.streamId, TRUE)
    /\ answered.response = SuccessResponse("ab", answered.streamId)

\* C3: an uncancelled streaming request has sent exactly one streamUpdate per
\* non-empty fragment read, the k-th carrying the concatenation of the first
\* k non-empty fragments and the stream id; when its stream ends it answers
\* success with the concatenation of all of them.
C3_CumulativeStreaming ==
    [][\A i \in DOMAIN reqs :
          (reqs[i].message.isStreaming /\ ~reqs[i].cancelled) =>
              /\ reqs[i].updates =
                     Cumulative(NonEmpty(reqs[i].frags), 1, reqs[i].streamId)
              /\ (i \notin DOMAIN reqs' /\ answered'.response.success) =>
                     answered'.response =
                         [success |-> TRUE,
                          response |-> ConcatAll(reqs[i].frags),
                          streamId |-> reqs[i].streamId]]_vars

\* C3 witness: a stream that no cancelStream interfered with ended after the
\* fragments "a" and "b" and was answered "ab".
C3_Witness ==
    /\ answered.pc = "done"
    /\ answered.message.isStreaming
    /\ cancelReply = NoReply
    /\ answered.response = SuccessResponse("ab", answered.streamId)

\* what handleCancelStream can change of a request: all but the history flag
Controllers(rs) == [i \in DOMAIN rs |-> [rs[i] EXCEPT !.cancelHandled = FALSE]]

\* C4: cancelStream(S) answers success exactly when S is in the registry at
\* that moment; a cancel answered true removes S, so that a cancel of S that
\* follows is answered false; a cancel answered false changes no state.
C4_IdempotentCancel ==
    [][cancelReply' # cancelReply =>
          /\ cancelReply'.success = (cancelReply'.streamId \in DOMAIN activeStreams)
          /\ cancelReply'.streamId \notin DOMAIN activeStreams'
          /\ (cancelReply.success /\ cancelReply.streamId = cancelReply'.streamId)
                 => ~cancelReply'.success
          /\ ~cancelReply'.success =>
                 /\ activeStreams' = activeStreams
                 /\ Controllers(reqs') = Controllers(reqs)
                 /\ answered' = answered]_vars

\* C4 witness: a stream in flight was cancelled (answered true) and the
\* cancelStream handled last, for the same id, was answered false.
C4_Witness ==
    \E i \in DOMAIN reqs :
        /\ reqs[i].cancelled
        /\ cancelReply = CancelReply(reqs[i].streamId, FALSE)

\* profile.extraOptions is text that JSON.parse rejects
InvalidExtraOptions(message) ==
    IF message.profile = NoProfile THEN FALSE
    ELSE /\ message.profile.extraOptions # ""
         /\ ~JSONParse(message.profile.extraOptions).ok

\* the options an adapter computes itself, before any merge
ComputedOptions(message) ==
    LET base == BaseOptions(message.profile.type, message.profile.model,
                            message.profile.systemPrompt, message.userPrompt,
                            message.text)
    IN IF message.isStreaming THEN Spread(base, [stream |-> Bool(TRUE)]) ELSE base

\* C6: a request whose extraOptions are not valid JSON issues its provider
\* call with the base options unchanged, and is answered as the provider
\* answers: a failure response only carries a provider's error.
C6_InvalidExtraOptionsNonFatal ==
    /\ \A i \in DOMAIN reqs :
           InvalidExtraOptions(reqs[i].message) =>
               /\ reqs[i].calls = 1
               /\ reqs[i].options = ComputedOptions(reqs[i].message)
    /\ (answered.pc = "done" /\ InvalidExtraOptions(answered.message)) =>
           /\ answered.calls = 1
           /\ answered.options = ComputedOptions(answered.message)
           /\ ~answered.response.success =>
                  answered.response.error \in ProviderErrors

\* C6 witness: a non-streaming request with extraOptions "{not json" was
\* answered with the provider's completion.
C6_Witness ==
    /\ answered.pc = "done"
    /\ InvalidExtraOptions(answered.message)
    /\ ~answered.message.isStreaming
    /\ answered.calls = 1
    /\ answered.response.success

\* the adapter method of each supported profile type
AdapterOfType ==
    [openai |-> "processWithOpenAI", anthropic |-> "processWithAnthropic",
     ollama |-> "processWithOllama"]

ConfigurationError(message) ==
    IF message.profile = NoProfile THEN TRUE
    ELSE message.profile.type \notin AdapterTypes

\* C8: a request without a profile or with an unsupported profile type is
\* answered success:false with no provider call issued and no registry entry
\* left for it; a request with a supported type goes to the adapter of that
\* type and to no other.
C8_ConfigurationErrors ==
    /\ \A i \in DOMAIN reqs :
           /\ ~ConfigurationError(reqs[i].message)
           /\ reqs[i].adapter = AdapterOfType[reqs[i].message.profile.type]
           /\ reqs[i].calls = 1
    /\ answered.pc = "done" =>
           IF ConfigurationError(answered.message)
           THEN /\ ~answered.response.success
                /\ answered.calls = 0
                /\ answered.adapter = "none"
                /\ answered.streamId \notin DOMAIN activeStreams
           ELSE /\ answered.adapter = AdapterOfType[answered.message.profile.type]
                /\ answered.calls = 1

\* C8 witness: a streaming request with profile type "custom" and a supplied
\* stream id was answered while another stream is registered.
C8_Witness ==
    /\ answered.pc = "done"
    /\ answered.message.profile # NoProfile
    /\ answered.message.profile.type = "custom"
    /\ answered.message.isStreaming
    /\ answered.message.streamId # NoId
    /\ DOMAIN activeStreams # {}

\* C9: every failure response has exactly the fields success, error and
\* streamId, the streamId being the id of the request.
C9_FailureResponseShape ==
    (answered.pc = "done" /\ ~answered.response.success) =>
        /\ DOMAIN answered.response = {"success", "error", "streamId"}
        /\ answered.response.streamId = answered.streamId

\* C10: a request that has finished, however it finished, has no entry in
\* the registry: every entry belongs to a request in flight, and the
\* registry is empty when none is.
C10_RegistryRelease ==
    /\ answered.pc = "done" => answered.streamId \notin DOMAIN activeStreams
    /\ \A s \in DOMAIN activeStreams :
           \E i \in DOMAIN reqs : reqs[i].streamId = s /\ activeStreams[s] = i
    /\ DOMAIN reqs = {} => DOMAIN activeStreams = {}

\* C10 witness: two requests were started and both have finished, the last
\* one a stream that failed with a provider error after forwarding "a".
C10_Witness ==
    /\ nReqs = 2
    /\ DOMAIN reqs = {}
    /\ answered.pc = "done"
    /\ answered.message.isStreaming
    /\ answered.response = FailureResponse("401 Incorrect API key")
    /\ nChunks >= 1

\* the requests in flight that stream and have not been cancelled
Cancellable ==
    {i \in DOMAIN reqs : reqs[i].message.isStreaming /\ ~reqs[i].cancelled}

\* C11 (as the code has it): the registry holds exactly one entry for every
\* streaming request in flight that has not been cancelled, mapped to the
\* handle of that request; requests that do not stream and streams already
\* cancelled await their provider without an entry.
C11_RegistryIsCancellableStreams ==
    /\ DOMAIN activeStreams = {reqs[i].streamId : i \in Cancellable}
    /\ Cardinality(DOMAIN activeStreams) = Cardinality(Cancellable)
    /\ \A i \in Cancellable : activeStreams[reqs[i].streamId] = i

\* C11 witness: two streams are in flight, one of them cancelled: the
\* registry has one entry.
C11_Witness ==
    /\ Cardinality(DOMAIN reqs) = 2
    /\ \A i \in DOMAIN reqs : reqs[i].message.isStreaming
    /\ \E i \in DOMAIN reqs : reqs[i].cancelled /\ reqs[i].pc = "streaming"
    /\ Cardinality(DOMAIN activeStreams) = 1

\* C11 as stated: the number of registry entries equals the number of
\* processWithLLM requests awaiting their provider.
C11_RegistrySizeIsInFlight ==
    Cardinality(DOMAIN activeStreams) = Cardinality(DOMAIN reqs)

\* C12: every streamUpdate is sent by a step taken while the stream id it
\* is tagged with is in the registry, the entry being the handle of the
\* sending request, and the id is still there after the step; for an id
\* that is absent, no streamUpdate is sent.
C12_UpdatesOnlyWhileRegistered ==
    [][\A i \in DOMAIN reqs :
          (i \in DOMAIN reqs' /\ reqs'[i].updates # reqs[i].updates) =>
              /\ reqs'[i].updates[Len(reqs'[i].updates)].streamId = reqs[i].streamId
              /\ reqs[i].streamId \in DOMAIN activeStreams
              /\ activeStreams[reqs[i].streamId] = i
              /\ reqs[i].streamId \in DOMAIN activeStreams']_vars

\* C12 witness: of two streams that have each sent one update, one is still
\* registered and the other, cancelled, is not.
C12_Witness ==
    \E i, j \in DOMAIN reqs :
        /\ reqs[i].cancelled
        /\ Len(reqs[i].updates) = 1
        /\ reqs[i].streamId \notin DOMAIN activeStreams
        /\ Len(reqs[j].updates) = 1
        /\ reqs[j].streamId \in DOMAIN activeStreams

\* the content of the streamUpdate sent last, "" when none was sent
LastContent(updates) ==
    IF updates = <<>> THEN "" ELSE updates[Len(updates)].content

\* C13: when the streaming loop of a cancelled request reads a chunk, it
\* consumes nothing more: the request ends in that step and is answered
\* success with the content of the last streamUpdate it sent, the empty
\* string if it sent none.
C13_CancelledStreamReturnsLastContent ==
    [][\A i \in DOMAIN reqs : \A c \in Chunks(Len(reqs[i].frags) + 1) :
          (reqs[i].pc = "streaming" /\ reqs[i].cancelled /\ StreamChunk(i, c)) =>
              /\ i \notin DOMAIN reqs'
              /\ nChunks' = nChunks
              /\ answered'.streamId = reqs[i].streamId
              /\ answered'.response =
                     [success |-> TRUE,
                      response |-> LastContent(reqs[i].updates),
                      streamId |-> reqs[i].streamId]]_vars

\* C13 witness: a stream cancelled after its only update, "a", was answered
\* success with "a".
C13_Witness ==
    /\ answered.pc = "done"
    /\ answered.message.isStreaming
    /\ cancelReply = CancelReply(answered.streamId, TRUE)
    /\ nChunks = 1
    /\ answered.response = SuccessResponse("a", answered.streamId)

\* C15: when the provider call rejects or reading the stream throws, with
\* an error of message e, the request is answered in that very step, with
\* exactly {success: false, error: e}; it is in flight no longer, so it is
\* answered once, and its registry entry is gone.
C15_ProviderFailureAnswered ==
    [][\A i \in DOMAIN reqs : \A e \in ProviderErrors :
          (ProviderRejects(i, e) \/ StreamFails(i, e)) =>
              /\ answered'.streamId = reqs[i].streamId
              /\ answered'.response = [success |-> FALSE, error |-> e]
              /\ answered'.n = nReqs - Cardinality(DOMAIN reqs) + 1
              /\ i \notin DOMAIN reqs'
              /\ reqs[i].streamId \notin DOMAIN activeStreams']_vars

\* C15 witness: the second response sent answers a non-streaming request
\* whose provider call was rejected.
C15_Witness ==
    /\ answered.pc = "done"
    /\ answered.n = 2
    /\ ~answered.message.isStreaming
    /\ answered.calls = 1
    /\ answered.response = FailureResponse("401 Incorrect API key")

\* C16: a request issues at most one provider call: every request in
\* flight has issued exactly one, and a request that was answered has
\* issued one or none, one when it is the provider that failed it.
C16_SingleAttempt ==
    /\ \A i \in DOMAIN reqs : reqs[i].calls = 1
    /\ answered.pc = "done" =>
           /\ answered.calls \in {0, 1}
           /\ (~answered.response.success
               /\ answered.response.error \in ProviderErrors) => answered.calls = 1

\* C16 witness: the first response sent answers a streaming request whose
\* provider call was rejected: one call was issued.
C16_Witness ==
    /\ answered.pc = "done"
    /\ answered.n = 1
    /\ answered.message.isStreaming
    /\ nChunks = 0
    /\ answered.response = FailureResponse("401 Incorrect API key")
    /\ answered.calls = 1

\* C19: every request that has left the dispatcher was answered exactly
\* once and no request in flight has been answered: the responses sent so
\* far number the requests no longer in flight, and the stream id of the
\* last response belongs to no request that can still send a streamUpdate.
C19_UpdatesPrecedeResponse ==
    /\ nReqs = Cardinality(DOMAIN reqs)
                  + (IF answered.pc = "done" THEN answered.n ELSE 0)
    /\ answered.pc = "done" =>
           \A i \in DOMAIN reqs : reqs[i].streamId # answered.streamId

\* C19 witness: a stream was answered with the content of its two updates
\* while another stream is still being consumed.
C19_Witness ==
    /\ answered.pc = "done"
    /\ answered.n = 1
    /\ answered.message.isStreaming
    /\ answered.response = SuccessResponse("ab", answered.streamId)
    /\ \E i \in DOMAIN reqs : reqs[i].pc = "streaming"

\* C23: with two streaming requests i and j in flight, a step that handles
\* cancelStream for the id of i, or in which i ends, leaves j in flight with
\* its state (cancellation flag, accumulated content, updates sent) and its
\* registry entry as they were; and a stream j that was not cancelled itself
\* answers with the concatenation of all its fragments also when it ends
\* while i is cancelled.
C23_StreamIndependence ==
    [][\A i \in DOMAIN reqs : \A j \in DOMAIN reqs \ {i} :
          (reqs[i].message.isStreaming /\ reqs[j].message.isStreaming) =>
              /\ (HandleCancelStream(reqs[i].streamId) \/ i \notin DOMAIN reqs') =>
                     /\ j \in DOMAIN reqs'
                     /\ reqs'[j] = reqs[j]
                     /\ (reqs[j].streamId \in DOMAIN activeStreams') =
                            (reqs[j].streamId \in DOMAIN activeStreams)
                     /\ reqs[j].streamId \in DOMAIN activeStreams =>
                            activeStreams'[reqs[j].streamId] = j
              /\ (reqs[i].cancelled /\ ~reqs[j].cancelled
                  /\ j \notin DOMAIN reqs' /\ answered'.response.success) =>
                     answered'.response =
                         [success |-> TRUE,
                          response |-> ConcatAll(reqs[j].frags),
                          streamId |-> reqs[j].streamId]]_vars

\* C23 witness: of two streams, the one answered first had been cancelled,
\* and the other, never cancelled, has then ended with its whole content.
C23_Witness ==
    /\ answered.pc = "done"
    /\ answered.n = 2
    /\ answered.message.isStreaming
    /\ answered.response = SuccessResponse("ab", answered.streamId)
    /\ cancelReply.success
    /\ cancelReply.streamId # answered.streamId
    /\ cancelReply.streamId \notin DOMAIN activeStreams

C24_NonStreamingRequest ==
    /\ \A i \in DOMAIN reqs :
           ~reqs[i].message.isStreaming =>
               /\ reqs[i].pc = "calling"
               /\ reqs[i].calls = 1
               /\ reqs[i].updates = <<>>
    /\ (answered.pc = "done" /\ ~answered.message.isStreaming) =>
           /\ answered.updates = <<>>
           /\ answered.calls <= 1
           /\ answered.response.success =>
                  /\ answered.calls = 1
                  /\ \E c \in Completions :
                         answered.response =
                             [success |-> TRUE, response |-> c,
                              streamId |-> answered.streamId]

\* C24 witness: a non-streaming OpenAI request was answered with the
\* completion of its one call.
C24_Witness ==
    /\ answered.pc = "done"
    /\ ~answered.message.isStreaming
    /\ answered.adapter = "processWithOpenAI"
    /\ answered.calls = 1
    /\ answered.updates = <<>>
    /\ answered.response.success
    /\ answered.response.response = "done"

(***************************************************************************)
(* BuildSpec: the provider request of one adapter invocation.              *)
(*                                                                         *)
(* The inputs of the adapter (its type, the prompts, isStreaming, the text *)
(* of profile.extraOptions and the state of the cancellation handle it is  *)
(* given) are drawn initially.  The adapter first computes its options     *)
(* (baseOptions, with stream: true added when streaming); then, if the     *)
(* handle is cancelled, it throws; else it merges the extra options into   *)
(* the computed ones and calls the SDK with the result.                    *)
(***************************************************************************)
SystemPrompts == {"", "S"}

BuildInputs ==
    [stage : {"input"}, type : AdapterTypes, systemPrompt : SystemPrompts,
     userPrompt : UserPrompts, isStreaming : BOOLEAN,
     extraOptions : ExtraOptionsTexts, cancelled : BOOLEAN]

\* const baseOptions = {...}; when streaming, { ...baseOptions, stream: true }
ComputeOptions ==
    /\ build.stage = "input"
    /\ LET base == BaseOptions(build.type, ModelName, build.systemPrompt,
                               build.userPrompt, TextToProcess)
       IN build' = [stage |-> "computed", type |-> build.type,
                    systemPrompt |-> build.systemPrompt,
                    userPrompt |-> build.userPrompt,
                    isStreaming |-> build.isStreaming,
                    extraOptions |-> build.extraOptions,
                    cancelled |-> build.cancelled,
                    computed |-> IF build.isStreaming
                                 THEN Spread(base, [stream |-> Bool(TRUE)])
                                 ELSE base]
    /\ UNCHANGED <<activeStreams, nReqs, reqs, answered, nChunks, cancelReply, page>>

\* a check that never finds the handle cancelled
CheckSkipped(b) == FALSE

\* if (streamController && streamController.cancelled)
CancelledBeforeCall(b) == b.cancelled

\* throw new Error('Request cancelled'): no SDK call; the error reaches the
\* catch of handleLLMRequest
FailFast ==
    /\ build.stage = "computed"
    /\ CancelledBeforeCall(build)
    /\ build' = [stage |-> "failed", type |-> build.type,
                 systemPrompt |-> build.systemPrompt,
                 userPrompt |-> build.userPrompt,
                 isStreaming |-> build.isStreaming,
                 extraOptions |-> build.extraOptions,
                 cancelled |-> build.cancelled,
                 computed |-> build.computed,
                 calls |-> 0,
                 response |-> FailureResponse("Request cancelled")]
    /\ UNCHANGED <<activeStreams, nReqs, reqs, answered, nChunks, cancelReply, page>>

\* this.mergeExtraOptions(..., extraOptions) and the SDK call with its result
MergeAndSend ==
    /\ build.stage = "computed"
    /\ ~CancelledBeforeCall(build)
    /\ build' = [stage |-> "sent", type |-> build.type,
                 systemPrompt |-> build.systemPrompt,
                 userPrompt |-> build.userPrompt,
                 isStreaming |-> build.isStreaming,
                 extraOptions |-> build.extraOptions,
                 cancelled |-> build.cancelled,
                 computed |-> build.computed,
                 calls |-> 1,
                 options |-> mergeExtraOptions(build.computed,
                                               build.extraOptions)]
    /\ UNCHANGED <<activeStreams, nReqs, reqs, answered, nChunks, cancelReply, page>>

BuildInit ==
    /\ activeStreams = [s \in {} |-> 0]
    /\ nReqs = 0
    /\ reqs = [i \in {} |-> NoRequest]
    /\ answered = NoRequest
    /\ nChunks = 0
    /\ cancelReply = NoReply
    /\ build \in BuildInputs
    /\ page = NoPage

BuildNext ==
    \/ ComputeOptions
    \/ FailFast
    \/ MergeAndSend

BuildSpec == BuildInit /\ [][BuildNext]_vars

(***************************************************************************)
(* Claims about the provider request, checked under BuildSpec.             *)
(***************************************************************************)
\* the text parses as a JSON object
ParsesAsObject(text) ==
    /\ text # ""
    /\ JSONParse(text).ok
    /\ JSONParse(text).kind = "object"

\* C5: for base options B and extraOptions text parsing as the object E, the
\* merged options have exactly the keys of B and E together, equal B on
\* every key of B and equal E on every key that B does not have.
C5_MergePrecedence ==
    (build.stage = "sent" /\ ParsesAsObject(build.extraOptions)) =>
        LET B == build.computed
            E == JSONParse(build.extraOptions).own
        IN /\ DOMAIN build.options = DOMAIN B \cup DOMAIN E
           /\ \A k \in DOMAIN B : build.options[k] = B[k]
           /\ \A k \in DOMAIN E \ DOMAIN B : build.options[k] = E[k]

\* C5 witness: extraOptions {"model":"ignored","temperature":1} were merged:
\* the model is still the profile's and temperature was added.
C5_Witness ==
    /\ build.stage = "sent"
    /\ build.extraOptions = "{\"model\":\"ignored\",\"temperature\":1}"
    /\ build.options.model = Str(ModelName)
    /\ build.options.temperature = Num(1)

\* the stream flag a provider request carries: absent means not streaming
StreamSent(options) ==
    IF "stream" \in DOMAIN options THEN options.stream ELSE Bool(FALSE)

\* C7: in the request sent, model and messages (prompt for Ollama) are the
\* ones the adapter computed and the stream flag is the one of isStreaming,
\* for streaming and non-streaming requests alike, whatever extraOptions
\* hold under those keys.
C7_ComputedFieldsPrecedence ==
    build.stage = "sent" =>
        /\ build.options.model = Str(ModelName)
        /\ IF build.type = "ollama"
           THEN build.options.prompt =
                    Str(OllamaPrompt(build.systemPrompt, build.userPrompt,
                                     TextToProcess))
           ELSE build.options.messages = build.computed.messages
        /\ StreamSent(build.options) = Bool(build.isStreaming)

\* C14: an adapter handed a cancellation handle that is already cancelled
\* issues no provider call and fails with 'Request cancelled', whether the
\* request streams or not and whichever of the three adapters it is; with
\* the handle not cancelled it issues its one call.
C14_FailFastWhenCancelled ==
    build.stage \in {"sent", "failed"} =>
        IF build.cancelled
        THEN /\ build.stage = "failed"
             /\ build.calls = 0
             /\ build.response = [success |-> FALSE, error |-> "Request cancelled"]
        ELSE /\ build.stage = "sent"
             /\ build.calls = 1

\* C14 witness: the Ollama adapter, not streaming, was handed a cancelled
\* handle and has failed without a call.
C14_Witness ==
    /\ build.stage = "failed"
    /\ build.type = "ollama"
    /\ ~build.isStreaming
    /\ build.calls = 0

\* C25: the messages of a request sent by the OpenAI adapter are the system
\* message (if systemPrompt is not empty), then the user message of the
\* user prompt (if it is not empty), then the user message of the text, and
\* nothing else, whatever extraOptions hold.
C25_OpenAIMessageList ==
    (build.stage = "sent" /\ build.type = "openai") =>
        LET s == [role |-> "system", content |-> build.systemPrompt]
            u == [role |-> "user", content |-> build.userPrompt]
            t == [role |-> "user", content |-> "T"]
        IN build.options.messages =
               <<"msgs",
                 CASE build.systemPrompt # "" /\ build.userPrompt # "" -> <<s, u, t>>
                   [] build.systemPrompt # "" /\ build.userPrompt = "" -> <<s, t>>
                   [] build.systemPrompt = "" /\ build.userPrompt # "" -> <<u, t>>
                   [] OTHER -> <<t>> >>

\* C25 witness: an OpenAI request with both prompts, and extraOptions that
\* hold a messages key, was sent with the three messages.
C25_Witness ==
    /\ build.stage = "sent"
    /\ build.type = "openai"
    /\ build.systemPrompt = "S"
    /\ build.userPrompt = "U"
    /\ "messages" \in DOMAIN JSONParse(build.extraOptions).own
    /\ Len(build.options.messages[2]) = 3

\* the messages of an Anthropic request: the user prompt, if any, and the text
C26_Messages ==
    LET u == [role |-> "user", content |-> build.userPrompt]
        t == [role |-> "user", content |-> "T"]
    IN <<"msgs", IF build.userPrompt # "" THEN <<u, t>> ELSE <<t>> >>

\* C26 as claimed: a request sent by the Anthropic adapter has the user
\* prompt (if any) and the text as its messages, a field system exactly when
\* systemPrompt is not empty, holding it, and max_tokens 4096.
C26_AnthropicRequestAsClaimed ==
    (build.stage = "sent" /\ build.type = "anthropic") =>
        /\ build.options.messages = C26_Messages
        /\ ("system" \in DOMAIN build.options) = (build.systemPrompt # "")
        /\ build.systemPrompt # "" =>
               build.options.system = <<"str", build.systemPrompt>>
        /\ build.options.max_tokens = <<"num", 4096>>

\* C26: a request sent by the Anthropic adapter has the user prompt (if any)
\* and the text as its messages, never the system prompt; its field system
\* holds systemPrompt when that is not empty; with an empty systemPrompt it
\* has a field system only when extraOptions supply one, which is sent as
\* it is; max_tokens is 4096 whatever extraOptions hold.
C26_AnthropicRequest ==
    (build.stage = "sent" /\ build.type = "anthropic") =>
        LET extra == IF build.extraOptions # "" /\ JSONParse(build.extraOptions).ok
                     THEN JSONParse(build.extraOptions).own ELSE EmptyObject
        IN /\ build.options.messages = C26_Messages
           /\ IF build.systemPrompt # ""
              THEN build.options.system = <<"str", build.systemPrompt>>
              ELSE /\ ("system" \in DOMAIN build.options) = ("system" \in DOMAIN extra)
                   /\ "system" \in DOMAIN extra =>
                          build.options.system = extra.system
           /\ build.options.max_tokens = <<"num", 4096>>

\* C26 witness: an Anthropic request without a system prompt, whose
\* extraOptions hold a system key, was sent with that system field, the two
\* user messages and max_tokens 4096.
C26_Witness ==
    /\ build.stage = "sent"
    /\ build.type = "anthropic"
    /\ build.systemPrompt = ""
    /\ build.userPrompt = "U"
    /\ "system" \in DOMAIN build.options
    /\ build.options.system = <<"str", "x">>
    /\ Len(build.options.messages[2]) = 2
    /\ build.options.max_tokens = <<"num", 4096>>

\* C27: the prompt of a request sent by the Ollama adapter is systemPrompt
\* and a blank line (if systemPrompt is not empty), then userPrompt and a
\* blank line (if userPrompt is not empty), then the text; with both prompts
\* empty it is the text.
C27_OllamaPrompt ==
    (build.stage = "sent" /\ build.type = "ollama") =>
        build.options.prompt =
            <<"str",
              CASE build.systemPrompt # "" /\ build.userPrompt # "" ->
                     build.systemPrompt \o "\n\n" \o build.userPrompt \o "\n\nT"
                [] build.systemPrompt # "" /\ build.userPrompt = "" ->
                     build.systemPrompt \o "\n\nT"
                [] build.systemPrompt = "" /\ build.userPrompt # "" ->
                     build.userPrompt \o "\n\nT"
                [] OTHER -> "T" >>

\* C27 witness: an Ollama request with both prompts, and extraOptions that
\* hold a prompt key, was sent with the three parts separated by blank lines.
C27_Witness ==
    /\ build.stage = "sent"
    /\ build.type = "ollama"
    /\ "prompt" \in DOMAIN JSONParse(build.extraOptions).own
    /\ build.options.prompt = <<"str", "S\n\nU\n\nT">>

(***************************************************************************)
(* PageSpec: the ContentManager of one page.                               *)
(*                                                                         *)
(* page.currentModal is 0 for null, else the number of the prompt modal;   *)
(* page.currentStreamId is NoId for null.  page.modals holds, for every    *)
(* modal not destroyed, what its #quickllm-response element shows and      *)
(* whether its process button and prompt input are disabled.  page.pending *)
(* are the processWithProfile invocations waiting for their response, each *)
(* with its stream id and the modal whose elements it captured.            *)
(* page.cancels are the cancelStream messages sent, in order, each with its *)
(* stream id and whether it could be delivered.  The                       *)
(* background's messages reach the page in any order and at any time:      *)
(* a streamUpdate can carry any id the page has issued, or a foreign one.  *)
(***************************************************************************)
NoUpdate == [content |-> "", streamId |-> NoId, current |-> NoId]

PageInit ==
    /\ activeStreams = [s \in {} |-> 0]
    /\ nReqs = 0
    /\ reqs = [i \in {} |-> NoRequest]
    /\ answered = NoRequest
    /\ nChunks = 0
    /\ cancelReply = NoReply
    /\ build = NoBuild
    /\ page = [currentModal |-> 0, currentStreamId |-> NoId,
               modals |-> [m \in {} |-> 0], pending |-> {}, cancels |-> <<>>,
               nModals |-> 0, nStreams |-> 0, nUpdates |-> 0,
               lastUpdate |-> NoUpdate]

\* the modal as ShadowModal.create leaves it
NewModal == [response |-> "", disabled |-> FALSE]

\* showPromptModal once the profiles are there: this.currentModal = new
\* ShadowModal(); a modal already open is not closed
\* this.currentModal = new ShadowModal() and its create(): the page after it
Opened(pg) ==
    LET m == pg.nModals + 1
    IN [pg EXCEPT !.nModals = m,
                  !.currentModal = m,
                  !.modals = Put(@, m, NewModal)]

ShowPromptModal ==
    /\ page.nModals < MaxModals
    /\ page' = Opened(page)
    /\ UNCHANGED <<activeStreams, nReqs, reqs, answered, nChunks, cancelReply, build>>

\* processWithProfile up to its await: the elements of the current modal are
\* captured, the new stream id becomes current, the loading state is shown,
\* the controls are disabled and processWithLLM is sent
\* the page after processWithProfile has run up to its await
Started(pg) ==
    LET streamId == SuppliedId(pg.nStreams + 1)
        m == pg.currentModal
    IN [pg EXCEPT
           !.nStreams = @ + 1,
           !.currentStreamId = streamId,
           !.modals = [@ EXCEPT ![m] = [response |-> "Processing...",
                                         disabled |-> TRUE]],
           !.pending = @ \cup {[streamId |-> streamId, modal |-> m]}]

ProcessWithProfile ==
    /\ page.nStreams < MaxStreams
    /\ page.currentModal # 0
    /\ page' = Started(page)
    /\ UNCHANGED <<activeStreams, nReqs, reqs, answered, nChunks, cancelReply, build>>

\* how the await of browser.runtime.sendMessage can end without a response
\* of the background: the promise resolves with null (no receiving end, the
\* wrapper's resolve(null)) or it rejects with an error
NullResponse == [null |-> TRUE]
SendRejected(error) == [rejected |-> error]
SendErrors == {"Extension context invalidated."}

\* error.message of the TypeError that reading response.success throws, in
\* the browser whose sendMessage wrapper resolves with null
NullResponseError == "Cannot read properties of null (reading 'success')"

IsResponse(response) ==
    /\ "null" \notin DOMAIN response
    /\ "rejected" \notin DOMAIN response

\* what processWithProfile has to render for a response: the response text,
\* or the message of the error its catch block receives
Rendered(response) ==
    IF "rejected" \in DOMAIN response THEN "Error: " \o response.rejected
    ELSE IF "null" \in DOMAIN response THEN "Error: " \o NullResponseError
    ELSE IF response.success THEN response.response
    ELSE "Error: " \o response.error

\* renderMarkdownToElement(content, element): nothing happens for an empty
\* content
RenderMarkdown(shown, content) == IF content = "" THEN shown ELSE content

\* what the response element shows after processWithProfile has handled the
\* response: renderMarkdownToElement on success, showErrorState otherwise
ResponseShown(shown, response) ==
    IF IsResponse(response) /\ response.success
    THEN RenderMarkdown(shown, Rendered(response))
    ELSE Rendered(response)

\* the ways the processWithLLM call of a stream can end
Responses(streamId) ==
    {SuccessResponse("ab", streamId)}
    \cup {FailureResponse(e) : e \in ProviderErrors}
    \cup {NullResponse}
    \cup {SendRejected(e) : e \in SendErrors}

\* a continuation that returns at once when there is no response object
ResponseArrivesNullIgnored(p, response) ==
    /\ p \in page.pending
    /\ page' = [page EXCEPT
           !.pending = @ \ {p},
           !.modals = IF page.currentStreamId = p.streamId /\ p.modal \in DOMAIN @
                         /\ "null" \notin DOMAIN response
                      THEN [@ EXCEPT ![p.modal] =
                               [response |-> ResponseShown(@.response, response),
                                disabled |-> FALSE]]
                      ELSE @]
    /\ UNCHANGED <<activeStreams, nReqs, reqs, answered, nChunks, cancelReply, build>>

\* a continuation that renders whatever stream the response belongs to
ResponseArrivesUnguarded(p, response) ==
    /\ p \in page.pending
    /\ page' = [page EXCEPT
           !.pending = @ \ {p},
           !.modals = IF p.modal \in DOMAIN @
                      THEN [@ EXCEPT ![p.modal] =
                               [response |-> ResponseShown(@.response, response),
                                disabled |-> FALSE]]
                      ELSE @]
    /\ UNCHANGED <<activeStreams, nReqs, reqs, answered, nChunks, cancelReply, build>>

\* the Copy button processWithProfile shows after a successful response of
\* the current stream: the #quickllm-copy of the modal that is current then,
\* which only a prompt modal has.  A page that keeps no record of its Copy
\* buttons is left as it is
CopyShown(pg, p, response) ==
    IF /\ "copy" \in DOMAIN pg
       /\ pg.currentStreamId = p.streamId
       /\ IsResponse(response)
       /\ response.success
       /\ pg.currentModal # 0
       /\ pg.kinds[pg.currentModal].kind = "prompt"
    THEN [pg EXCEPT !.copy = @ \cup {pg.currentModal}]
    ELSE pg

\* processWithProfile after its await: the response or the error is rendered
\* into the captured elements and the controls are enabled again, only if
\* the stream is still the current one
ResponseArrives(p, response) ==
    /\ p \in page.pending
    /\ page' = [CopyShown(page, p, response) EXCEPT
           !.pending = @ \ {p},
           !.modals = IF page.currentStreamId = p.streamId /\ p.modal \in DOMAIN @
                      THEN [@ EXCEPT ![p.modal] =
                               [response |-> ResponseShown(@.response, response),
                                disabled |-> FALSE]]
                      ELSE @]
    /\ UNCHANGED <<activeStreams, nReqs, reqs, answered, nChunks, cancelReply, build>>

\* a guard that only asks for an open modal
ModalIsOpen(p, streamId) == p.currentModal # 0

\* if (this.currentModal && this.currentStreamId === streamId)
IsCurrentStream(p, streamId) ==
    /\ p.currentModal # 0
    /\ p.currentStreamId = streamId

\* the page after updateStreamingResponse(content, streamId)
Updated(pg, content, streamId) ==
    [pg EXCEPT
        !.nUpdates = @ + 1,
        !.lastUpdate = [content |-> content, streamId |-> streamId,
                        current |-> pg.currentStreamId],
        !.modals = IF IsCurrentStream(pg, streamId)
                   THEN [@ EXCEPT ![pg.currentModal].response =
                                     RenderMarkdown(@, content)]
                   ELSE @]

\* updateStreamingResponse(content, streamId)
updateStreamingResponse(content, streamId) ==
    /\ page.nUpdates < MaxUpdates
    /\ page' = Updated(page, content, streamId)
    /\ UNCHANGED <<activeStreams, nReqs, reqs, answered, nChunks, cancelReply, build>>

\* a closeModal that sends the cancelStream and keeps the current stream id
ClosedKeepingStreamId(pg, delivered) ==
    IF pg.currentModal = 0 THEN pg
    ELSE [pg EXCEPT
             !.cancels = IF pg.currentStreamId # NoId
                         THEN Append(@, [streamId |-> pg.currentStreamId,
                                         delivered |-> delivered])
                         ELSE @,
             !.modals = Remove(@, pg.currentModal),
             !.currentModal = 0]

\* the page after closeModal(): nothing happens without a current modal
Closed(pg, delivered) ==
    IF pg.currentModal = 0 THEN pg
    ELSE [pg EXCEPT
             !.cancels = IF pg.currentStreamId # NoId
                         THEN Append(@, [streamId |-> pg.currentStreamId,
                                         delivered |-> delivered])
                         ELSE @,
             !.currentStreamId = NoId,
             !.modals = Remove(@, pg.currentModal),
             !.currentModal = 0]

\* a closeModal that gives up when its cancelStream cannot be delivered
closeModalAwaitingCancel(delivered) ==
    /\ page.currentModal # 0
    /\ page' = IF page.currentStreamId # NoId /\ ~delivered
               THEN [page EXCEPT
                        !.cancels = Append(@, [streamId |-> page.currentStreamId,
                                               delivered |-> FALSE])]
               ELSE [page EXCEPT
                        !.cancels = IF page.currentStreamId # NoId
                                    THEN Append(@, [streamId |-> page.currentStreamId,
                                                    delivered |-> TRUE])
                                    ELSE @,
                        !.currentStreamId = NoId,
                        !.modals = Remove(@, page.currentModal),
                        !.currentModal = 0]
    /\ UNCHANGED <<activeStreams, nReqs, reqs, answered, nChunks, cancelReply, build>>

\* closeModal(): cancelStream is sent for the current stream, which is
\* forgotten; the modal is destroyed.  delivered says whether the promise of
\* sendMessage resolves; its rejection is logged by the catch handler
closeModal(delivered) ==
    /\ page.currentModal # 0
    /\ page' = Closed(page, delivered)
    /\ UNCHANGED <<activeStreams, nReqs, reqs, answered, nChunks, cancelReply, build>>

\* the stream ids a streamUpdate can carry: the ones this page has issued
\* and one of another page
UpdateIds == {SuppliedId(n) : n \in 1..page.nStreams} \cup {GeneratedId(0)}

UpdateContents == {"a", "ab"}

PageNext ==
    \/ ShowPromptModal
    \/ ProcessWithProfile
    \/ \E p \in page.pending : \E r \in Responses(p.streamId) : ResponseArrives(p, r)
    \/ \E c \in UpdateContents : \E s \in UpdateIds : updateStreamingResponse(c, s)
    \/ \E delivered \in BOOLEAN : closeModal(delivered)

PageSpec == PageInit /\ [][PageNext]_vars

(***************************************************************************)
(* Claims about the content script, checked under PageSpec.                *)
(***************************************************************************)
\* what a page shows and remembers: all of page but the message counters
SessionState(p) ==
    [currentModal |-> p.currentModal, currentStreamId |-> p.currentStreamId,
     modals |-> p.modals, pending |-> p.pending, cancels |-> p.cancels]

\* C2: a streamUpdate whose streamId is not the current stream id of the
\* page (another stream is current, or none is) changes neither what any
\* modal shows nor the current modal, the current stream id or the enabled
\* state of the controls.
C2_StaleUpdateSuppressed ==
    [][(page'.nUpdates # page.nUpdates
        /\ page'.lastUpdate.streamId # page.currentStreamId)
          => SessionState(page') = SessionState(page)]_vars

\* C2 witness: while the second stream was current and its modal showed the
\* loading state, an update of the first stream was handled.
C2_Witness ==
    /\ page.nUpdates >= 1
    /\ page.currentModal # 0
    /\ page.currentStreamId = SuppliedId(2)
    /\ page.lastUpdate.current = SuppliedId(2)
    /\ page.lastUpdate.streamId = SuppliedId(1)
    /\ page.modals[page.currentModal].response = "Processing..."


\* C20: closeModal with an open modal and a current stream id S sends one
\* cancelStream, carrying S, forgets the current stream id, destroys the
\* modal and leaves no modal current, whether or not the cancelStream
\* message could be delivered.
C20_CloseCancelsStream ==
    [][\A delivered \in BOOLEAN :
          (page.currentStreamId # NoId /\ closeModal(delivered)) =>
              /\ Len(page'.cancels) = Len(page.cancels) + 1
              /\ \A k \in 1..Len(page.cancels) : page'.cancels[k] = page.cancels[k]
              /\ page'.cancels[Len(page'.cancels)].streamId = page.currentStreamId
              /\ page'.currentStreamId = NoId
              /\ page.currentModal \notin DOMAIN page'.modals
              /\ page'.currentModal = 0]_vars

\* C20 witness: the modal of a pending stream was closed and the one
\* cancelStream sent for it could not be delivered.
C20_Witness ==
    /\ Len(page.cancels) = 1
    /\ ~page.cancels[1].delivered
    /\ \E p \in page.pending : p.streamId = page.cancels[1].streamId
                                /\ p.modal \notin DOMAIN page.modals
    /\ page.currentStreamId = NoId
    /\ page.currentModal = 0


\* the ways a processWithLLM call ends that are not a success
Failures == {r \in Responses(NoId) : ~(IsResponse(r) /\ r.success)}

\* C22: when the call of the current stream ends with a success:false
\* response, with null or with a rejected send, the response area of its
\* modal shows "Error: " and the message, and the process button and the
\* prompt input are enabled.
C22_RecoverableUI ==
    [][\A p \in page.pending : \A r \in Failures :
          (p.streamId = page.currentStreamId /\ ResponseArrives(p, r)) =>
              /\ p.modal \in DOMAIN page'.modals
              /\ page.modals[p.modal].disabled
              /\ ~page'.modals[p.modal].disabled
              /\ page'.modals[p.modal].response =
                     "Error: " \o (CASE r = NullResponse ->
                                       "Cannot read properties of null (reading 'success')"
                                     [] "rejected" \in DOMAIN r -> r.rejected
                                     [] OTHER -> r.error)
              /\ p \notin page'.pending]_vars

\* C22 witness: the call of the current stream resolved with null; its
\* modal shows the error and its controls are enabled.
C22_Witness ==
    /\ page.currentModal # 0
    /\ page.currentStreamId = SuppliedId(1)
    /\ page.pending = {}
    /\ page.modals[page.currentModal] =
           [response |-> "Error: Cannot read properties of null (reading 'success')",
            disabled |-> FALSE]

\* C28: a response, of any kind, for a stream that is not the current one
\* changes no modal (neither what it shows nor its controls), the current
\* stream or the current modal; and while the call of the current stream
\* is unanswered, the controls of its modal are disabled.  So after
\* processWithProfile has started S2 in the modal of the unanswered S1, the
\* controls stay disabled until the response of S2, the only one rendered.
C28_Supersession ==
    [][/\ \A p \in page.pending : \A r \in Responses(p.streamId) :
             (p.streamId # page.currentStreamId /\ ResponseArrives(p, r)) =>
                 /\ page'.modals = page.modals
                 /\ page'.currentStreamId = page.currentStreamId
                 /\ page'.currentModal = page.currentModal
       /\ \A p \in page'.pending :
             (p.streamId = page'.currentStreamId /\ p.modal \in DOMAIN page'.modals) =>
                 page'.modals[p.modal].disabled]_vars

\* C28 witness: S1 and S2 were started in the same modal and both are
\* unanswered; a streamUpdate of S1 was handled while S2 was current, and
\* the modal still shows the loading state with its controls disabled.
C28_Witness ==
    /\ page.currentStreamId = SuppliedId(2)
    /\ page.pending = {[streamId |-> SuppliedId(1), modal |-> 1],
                       [streamId |-> SuppliedId(2), modal |-> 1]}
    /\ page.currentModal = 1
    /\ page.lastUpdate = [content |-> "a", streamId |-> SuppliedId(1),
                          current |-> SuppliedId(2)]
    /\ page.modals[1] = [response |-> "Processing...", disabled |-> TRUE]

\* C21 as claimed: at most one modal of a page exists at any time, and
\* whenever a modal is opened while another is current, that one has been
\* destroyed and its stream cancelled.
C21_OneSessionPerPage ==
    /\ Cardinality(DOMAIN page.modals) <= 1
    /\ \A p \in page.pending :
           p.modal # page.currentModal =>
               \E k \in 1..Len(page.cancels) : page.cancels[k].streamId = p.streamId

\* C31 as claimed: the current stream id of a page is non-null only while
\* the processWithLLM call of that stream is unanswered, and every
\* cancelStream sent carries the id of a stream whose call is unanswered.
C31_CancelOnlyInFlight ==
    [][/\ page'.currentStreamId # NoId =>
              \E p \in page'.pending : p.streamId = page'.currentStreamId
       /\ Len(page'.cancels) > Len(page.cancels) =>
              \E p \in page.pending :
                  p.streamId = page'.cancels[Len(page'.cancels)].streamId]_vars

(***************************************************************************)
(* RelaySpec: one page and the background together.  The page opens a      *)
(* modal and sends processWithLLM for its first stream; the background     *)
(* handles it as in Spec and its streamUpdate messages travel to the page  *)
(* one by one.  The loop does not await browser.tabs.sendMessage and the   *)
(* page checks no sequence number, so nothing in the code orders the       *)
(* messages of a stream: each one sent can be the next to arrive.          *)
(* page.arrived are the streamUpdate messages of the stream, by their      *)
(* position among the ones sent, that have left the channel, handled by    *)
(* the page or failed, and page.nUpdates is their number; page.alive says  *)
(* whether the content script of the tab still exists; page.failed counts  *)
(* the sends that found no receiver and page.lastFailure is how the last   *)
(* of them settled.  A second processWithProfile of the page makes another *)
(* stream current; its request is not received within a run.               *)
(***************************************************************************)
RelayInit ==
    /\ activeStreams = [s \in {} |-> 0]
    /\ nReqs = 0
    /\ reqs = [i \in {} |-> NoRequest]
    /\ answered = NoRequest
    /\ nChunks = 0
    /\ cancelReply = NoReply
    /\ build = NoBuild
    /\ page = [currentModal |-> 0, currentStreamId |-> NoId,
               modals |-> [m \in {} |-> 0], pending |-> {}, cancels |-> <<>>,
               nModals |-> 0, nStreams |-> 0, nUpdates |-> 0,
               lastUpdate |-> NoUpdate,
               alive |-> TRUE, failed |-> 0, lastFailure |-> "none",
               arrived |-> {}]

\* the streamUpdate messages the background has sent to the tab, in order
SentUpdates ==
    IF 1 \in DOMAIN reqs THEN reqs[1].updates
    ELSE IF answered.pc = "done" THEN answered.updates
    ELSE <<>>

\* the processWithLLM message of the page's first stream is received
RequestReceived(message) ==
    /\ nReqs = 0
    /\ page.nStreams >= 1
    /\ message.isStreaming
    /\ message.streamId = SuppliedId(1)
    /\ HandleLLMRequest(message)

\* a cancelStream the page sent for its first stream is received
CancelReceived(k) ==
    /\ nReqs >= 1
    /\ page.cancels[k].delivered
    /\ page.cancels[k].streamId = SuppliedId(1)
    /\ HandleCancelStream(page.cancels[k].streamId)

\* case 'streamUpdate' of the page's listener, for message k of the ones
\* sent: updateStreamingResponse(message.content, message.streamId)
StreamUpdateReceived(k) ==
    /\ page.alive
    /\ k \in 1..Len(SentUpdates)
    /\ k \notin page.arrived
    /\ page.nUpdates < MaxUpdates
    /\ page' = [Updated(page, SentUpdates[k].content, SentUpdates[k].streamId)
                   EXCEPT !.arrived = @ \cup {k}]
    /\ UNCHANGED <<activeStreams, nReqs, reqs, answered, nChunks, cancelReply, build>>

\* how a send to a tab without a receiving end settles: the promise of
\* browser.tabs.sendMessage rejects, or the wrapper resolves it with null
DeliveryOutcomes == {"rejected", "resolved null"}

\* a failed send whose error ends the request
DeliveryFailsAndPropagates(k, outcome) ==
    /\ ~page.alive
    /\ k \in 1..Len(SentUpdates)
    /\ k \notin page.arrived
    /\ page.nUpdates < MaxUpdates
    /\ page' = [page EXCEPT !.nUpdates = @ + 1, !.failed = @ + 1,
                            !.lastFailure = outcome, !.arrived = @ \cup {k}]
    /\ IF 1 \in DOMAIN reqs
       THEN Finish(1, FailureResponse("Could not establish connection"))
       ELSE UNCHANGED <<activeStreams, reqs, answered>>
    /\ UNCHANGED <<nReqs, nChunks, cancelReply, build>>

\* streamUpdate k finds no receiving end: the promise returned by
\* browser.tabs.sendMessage settles and nothing observes it
DeliveryFails(k, outcome) ==
    /\ ~page.alive
    /\ k \in 1..Len(SentUpdates)
    /\ k \notin page.arrived
    /\ page.nUpdates < MaxUpdates
    /\ page' = [page EXCEPT !.nUpdates = @ + 1, !.failed = @ + 1,
                            !.lastFailure = outcome, !.arrived = @ \cup {k}]
    /\ UNCHANGED <<activeStreams, nReqs, reqs, answered, nChunks, cancelReply, build>>

\* the tab navigates away or is closed: its content script is gone
TabCloses ==
    /\ page.alive
    /\ page' = [page EXCEPT !.alive = FALSE]
    /\ UNCHANGED <<activeStreams, nReqs, reqs, answered, nChunks, cancelReply, build>>

\* the response of the background reaches the waiting processWithProfile
ResponseReceived(p) ==
    /\ page.alive
    /\ answered.pc = "done"
    /\ p.streamId = answered.streamId
    /\ ResponseArrives(p, answered.response)

RelayNext ==
    \/ page.alive /\ ShowPromptModal
    \/ page.alive /\ ProcessWithProfile
    \/ \E delivered \in BOOLEAN : page.alive /\ closeModal(delivered)
    \/ TabCloses
    \/ \E m \in Messages(1) : RequestReceived(m)
    \/ \E k \in 1..Len(page.cancels) : CancelReceived(k)
    \/ \E i \in DOMAIN reqs : StreamOpened(i)
    \/ \E i \in DOMAIN reqs, e \in ProviderErrors : ProviderRejects(i, e)
    \/ \E i \in DOMAIN reqs : \E c \in Chunks(Len(reqs[i].frags) + 1) : StreamChunk(i, c)
    \/ \E i \in DOMAIN reqs : StreamEnds(i)
    \/ \E i \in DOMAIN reqs, e \in ProviderErrors : StreamFails(i, e)
    \/ \E k \in 1..Len(SentUpdates) : StreamUpdateReceived(k)
    \/ \E k \in 1..Len(SentUpdates), o \in DeliveryOutcomes : DeliveryFails(k, o)
    \/ \E p \in page.pending : ResponseReceived(p)

RelaySpec == RelayInit /\ [][RelayNext]_vars


(***************************************************************************)
(* Claims about the delivery of streamUpdate messages, checked under       *)
(* RelaySpec.                                                              *)
(***************************************************************************)
\* C17: once a streamUpdate could not be delivered because the page is gone,
\* a request still in flight goes on as if it had been: it holds what it has
\* accumulated, it is registered unless cancelled and its loop can take the
\* next chunk; and the request that was answered got the response of its
\* stream (the accumulated content, or the provider's error, never an error
\* of the delivery) and left no registry entry.
C17_DeliveryFailureIsBenign ==
    page.failed > 0 =>
        /\ \A i \in DOMAIN reqs :
               /\ reqs[i].pc = "streaming"
               /\ reqs[i].fullResponse = LastContent(reqs[i].updates)
               /\ (reqs[i].streamId \in DOMAIN activeStreams) = ~reqs[i].cancelled
               /\ nChunks < MaxChunks =>
                      \E c \in Chunks(Len(reqs[i].frags) + 1) :
                          ENABLED StreamChunk(i, c)
        /\ answered.pc = "done" =>
               /\ answered.streamId \notin DOMAIN activeStreams
               /\ answered.response =
                      IF answered.response.success
                      THEN [success |-> TRUE,
                            response |-> LastContent(answered.updates),
                            streamId |-> answered.streamId]
                      ELSE [success |-> FALSE, error |-> "401 Incorrect API key"]

\* C17 witness: the tab went away without closing its modal, both updates
\* of the stream found no receiver, and the request was answered with the
\* whole content.
C17_Witness ==
    /\ ~page.alive
    /\ page.failed = 2
    /\ page.cancels = <<>>
    /\ answered.pc = "done"
    /\ answered.response = SuccessResponse("ab", SuppliedId(1))
    /\ activeStreams = [s \in {} |-> 0]

\* the texts one chunk can extend a content by
Extensions == {Letter(k) : k \in 1..Len(Alphabet)}

\* C18 as claimed: the streamUpdate messages of a stream are handled by the
\* page in the order the adapter produced them, and each content the page
\* renders for its current stream extends the content of the update handled
\* before.
C18_RenderedContentsGrow ==
    [][(page'.nUpdates # page.nUpdates /\ page.alive) =>
          /\ page'.lastUpdate.content = SentUpdates[page.nUpdates + 1].content
          /\ page'.lastUpdate.streamId = SentUpdates[page.nUpdates + 1].streamId
          /\ IsCurrentStream(page, page'.lastUpdate.streamId) =>
                 /\ page'.modals[page.currentModal].response = page'.lastUpdate.content
                 /\ \/ page.lastUpdate.streamId = NoId
                    \/ /\ page.lastUpdate.streamId = page'.lastUpdate.streamId
                       /\ \E x \in Extensions :
                              page'.lastUpdate.content = page.lastUpdate.content \o x]_vars


\* C30 as claimed: once the response of the current stream has been handled
\* by the page, a streamUpdate of that stream handled afterwards changes
\* nothing of what any modal shows.
C30_FinalResponseKept ==
    [][(/\ page.alive
        /\ page'.nUpdates # page.nUpdates
        /\ page.currentModal # 0
        /\ page.currentStreamId # NoId
        /\ page'.lastUpdate.streamId = page.currentStreamId
        /\ \A p \in page.pending : p.streamId # page.currentStreamId)
           => page'.modals = page.modals]_vars


(***************************************************************************)
(* StartSpec: how the sessions of a page start.                            *)
(*                                                                         *)
(* The page of PageSpec with, in addition: page.kinds, which gives for     *)
(* every modal opened its kind ("error", "selector", "prompt") and the     *)
(* arguments showPromptModal had when it opened it; page.timers, the       *)
(* setTimeout callbacks scheduled and not yet run; page.clicks, the number *)
(* of Process actions of the user; page.calls, the showPromptModal calls   *)
(* of the profile selector that still wait for their getProfiles and       *)
(* prefersDarkMode answers, each with the processImmediately of the        *)
(* profile chosen and its bypass flag; page.copy, the modals whose Copy    *)
(* button has been made visible.  The showPromptModal of                   *)
(* handleProcessContent is taken from the moment its getProfiles call has  *)
(* returned nProfiles stored profiles.  No response arrives within a run:  *)
(* page.pending holds every processWithLLM message sent.                   *)
(***************************************************************************)
StartInit ==
    /\ activeStreams = [s \in {} |-> 0]
    /\ nReqs = 0
    /\ reqs = [i \in {} |-> NoRequest]
    /\ answered = NoRequest
    /\ nChunks = 0
    /\ cancelReply = NoReply
    /\ build = NoBuild
    /\ page = [currentModal |-> 0, currentStreamId |-> NoId,
               modals |-> [m \in {} |-> 0], pending |-> {}, cancels |-> <<>>,
               nModals |-> 0, nStreams |-> 0, nUpdates |-> 0,
               lastUpdate |-> NoUpdate,
               kinds |-> [m \in {} |-> 0], timers |-> {}, clicks |-> 0,
               calls |-> <<>>, copy |-> {}]

\* a variant in which the bypass flag does not matter
ProcessImmediatelyAlways(processImmediately, bypass) == processImmediately

\* profile.processImmediately && !bypassProcessImmediately
ShouldProcessImmediately(processImmediately, bypass) ==
    processImmediately /\ ~bypass

\* the modal showPromptModal ends up opening
Route(nProfiles, selected) ==
    IF nProfiles = 0 THEN "error"
    ELSE IF ~selected /\ nProfiles > 1 THEN "selector"
    ELSE "prompt"

\* the callbacks the opening of modal m schedules: the auto-close of
\* showError, the process-immediately start of showPromptModal
Scheduled(m, kind, processImmediately, bypass) ==
    IF kind = "error" THEN {[kind |-> "close", modal |-> m]}
    ELSE IF kind = "prompt" /\ ShouldProcessImmediately(processImmediately, bypass)
    THEN {[kind |-> "process", modal |-> m]}
    ELSE {}

\* the page after showPromptModal(text, textType, selectedProfile, bypass),
\* the profile used having the given processImmediately
Shown(pg, nProfiles, selected, processImmediately, bypass) ==
    LET m == pg.nModals + 1
        kind == Route(nProfiles, selected)
    IN [Opened(pg) EXCEPT
           !.kinds = Put(@, m, [kind |-> kind, nProfiles |-> nProfiles,
                                selected |-> selected,
                                processImmediately |-> processImmediately,
                                bypass |-> bypass]),
           !.timers = @ \cup Scheduled(m, kind, processImmediately, bypass)]

\* the page after showError(message): the error modal with its auto-close
\* timer, which is what showPromptModal opens when no profile is stored
ErrorShown(pg) == Shown(pg, 0, FALSE, FALSE, FALSE)

\* handleProcessContent: showPromptModal(text, textType), with no profile
\* selected and no bypass, for the selected text or else the text of the
\* page; showError when the page has neither
HandleProcessContent(hasText, nProfiles, processImmediately) ==
    /\ page.nModals + Len(page.calls) < MaxModals
    /\ page' = IF hasText
               THEN Shown(page, nProfiles, FALSE, processImmediately, FALSE)
               ELSE ErrorShown(page)
    /\ UNCHANGED <<activeStreams, nReqs, reqs, answered, nChunks, cancelReply, build>>

\* selectProfile of the profile selector m, by a click on one of its items
\* or by a digit or Enter in it: closeModal(), then the call of
\* showPromptModal(text, textType, selectedProfile, bypass), which waits
\* for its getProfiles answer
SelectProfile(m, processImmediately, bypass, delivered) ==
    /\ page.nModals + Len(page.calls) < MaxModals
    /\ m \in DOMAIN page.modals
    /\ page.kinds[m].kind = "selector"
    /\ page' = [Closed(page, delivered) EXCEPT
                   !.calls = Append(@, [processImmediately |-> processImmediately,
                                        bypass |-> bypass])]
    /\ UNCHANGED <<activeStreams, nReqs, reqs, answered, nChunks, cancelReply, build>>

\* the showPromptModal call k of the profile selector goes on after its
\* awaits, getProfiles having returned nProfiles stored profiles
SelectedProfileShown(k, nProfiles) ==
    /\ k \in DOMAIN page.calls
    /\ LET call == page.calls[k]
           pg == [page EXCEPT !.calls = SubSeq(@, 1, k - 1)
                                          \o SubSeq(@, k + 1, Len(@))]
       IN page' = Shown(pg, nProfiles, TRUE, call.processImmediately, call.bypass)
    /\ UNCHANGED <<activeStreams, nReqs, reqs, answered, nChunks, cancelReply, build>>

\* processWithProfile called while the current modal has no response
\* element: the new stream id becomes current, then appendChild on null
\* throws before anything is sent
StartedWithoutElements(pg) ==
    [pg EXCEPT !.nStreams = @ + 1,
               !.currentStreamId = SuppliedId(pg.nStreams + 1)]

\* a processWithProfile that does not need a current modal
ProcessWithoutModal(pg) ==
    IF pg.currentModal # 0 /\ pg.kinds[pg.currentModal].kind = "prompt"
    THEN Started(pg)
    ELSE StartedWithoutElements(pg)

\* processWithProfile called from a click or a timer
Process(pg) ==
    IF pg.currentModal = 0 THEN pg
    ELSE IF pg.kinds[pg.currentModal].kind = "prompt" THEN Started(pg)
    ELSE StartedWithoutElements(pg)

\* the user's Process action on prompt modal m, by a click on its Process
\* button or by Enter, the button being enabled: processWithProfile runs,
\* on the modal that is current.  The Process actions of a run are counted
\* against the bound of its streams
ProcessClicked(m) ==
    /\ page.nStreams < MaxStreams
    /\ page.clicks < MaxStreams
    /\ m \in DOMAIN page.modals
    /\ page.kinds[m].kind = "prompt"
    /\ ~page.modals[m].disabled
    /\ page' = [Process(page) EXCEPT !.clicks = @ + 1]
    /\ UNCHANGED <<activeStreams, nReqs, reqs, answered, nChunks, cancelReply, build>>

\* a scheduled callback runs: this.processWithProfile(...) of the
\* process-immediately timer, this.closeModal() of the error modal's timer
TimerFires(t, delivered) ==
    /\ t \in page.timers
    /\ t.kind = "process" => page.nStreams < MaxStreams
    /\ LET pg == [page EXCEPT !.timers = @ \ {t}]
       IN page' = IF t.kind = "process" THEN Process(pg)
                  ELSE Closed(pg, delivered)
    /\ UNCHANGED <<activeStreams, nReqs, reqs, answered, nChunks, cancelReply, build>>

StartNext ==
    \/ \E t \in BOOLEAN, n \in 0..MaxProfiles, pi \in BOOLEAN :
           HandleProcessContent(t, n, pi)
    \/ \E m \in DOMAIN page.modals, pi \in BOOLEAN, by \in BOOLEAN, d \in BOOLEAN :
           SelectProfile(m, pi, by, d)
    \/ \E k \in DOMAIN page.calls, n \in 0..MaxProfiles : SelectedProfileShown(k, n)
    \/ \E m \in DOMAIN page.modals : ProcessClicked(m)
    \/ \E t \in page.timers, d \in BOOLEAN : TimerFires(t, d)
    \/ \E d \in BOOLEAN : closeModal(d)

StartSpec == StartInit /\ [][StartNext]_vars


(***************************************************************************)
(* Claims about the start of a session, checked under StartSpec.           *)
(***************************************************************************)
\* what a showPromptModal step with these arguments must have done
Routed(nProfiles, selected, processImmediately, bypass) ==
    LET m == page.nModals + 1
    IN /\ page'.currentModal = m
       /\ page'.pending = page.pending
       /\ page'.kinds[m].kind =
              (CASE nProfiles = 0 -> "error"
                 [] nProfiles > 1 /\ ~selected -> "selector"
                 [] OTHER -> "prompt")
       /\ ([kind |-> "process", modal |-> m] \in page'.timers) =
              (/\ nProfiles # 0
               /\ selected \/ nProfiles = 1
               /\ processImmediately
               /\ ~bypass)

\* C29: showPromptModal opens the error modal when no profile is stored,
\* the profile selector when more than one is stored and none is selected,
\* and the prompt modal otherwise; it sends no processWithLLM itself and
\* schedules the automatic start exactly for a prompt modal whose profile
\* has processImmediately, the bypass flag being false; the selector's
\* selectProfile sends none either; and a processWithLLM is only ever sent
\* by a Process action or by such a scheduled start.
C29_SessionStartRouting ==
    [][/\ \A n \in 0..MaxProfiles, pi \in BOOLEAN :
             HandleProcessContent(TRUE, n, pi) => Routed(n, FALSE, pi, FALSE)
       /\ \A k \in DOMAIN page.calls, n \in 0..MaxProfiles :
             SelectedProfileShown(k, n) =>
                 Routed(n, TRUE, page.calls[k].processImmediately,
                        page.calls[k].bypass)
       /\ \A m \in DOMAIN page.modals, pi \in BOOLEAN, by \in BOOLEAN, d \in BOOLEAN :
             SelectProfile(m, pi, by, d) => page'.pending = page.pending
       /\ page'.pending # page.pending =>
             \/ page'.clicks = page.clicks + 1
             \/ \E t \in page.timers \ page'.timers :
                    /\ t.kind = "process"
                    /\ page.kinds[t.modal].kind = "prompt"
                    /\ page.kinds[t.modal].processImmediately
                    /\ ~page.kinds[t.modal].bypass]_vars

\* C29 witness: a profile with processImmediately was chosen in the
\* selector without bypass, and the request of its prompt modal was sent by
\* the scheduled start, with no Process action.
C29_Witness ==
    /\ page.clicks = 0
    /\ page.timers = {}
    /\ page.currentModal = 2
    /\ page.kinds[1].kind = "selector"
    /\ page.kinds[2] = [kind |-> "prompt", nProfiles |-> 2, selected |-> TRUE,
                        processImmediately |-> TRUE, bypass |-> FALSE]
    /\ page.pending = {[streamId |-> SuppliedId(1), modal |-> 2]}

\* C32 as claimed: when the auto-close timer of an error modal fires after
\* that modal was closed and another modal was opened, the newer modal stays
\* open and current and no cancelStream is sent.
C32_ErrorTimerClosesOwnModal ==
    [][\A t \in page.timers, d \in BOOLEAN :
          (/\ t.kind = "close"
           /\ t.modal \notin DOMAIN page.modals
           /\ page.currentModal # 0
           /\ TimerFires(t, d)) =>
              /\ page'.currentModal = page.currentModal
              /\ page'.modals = page.modals
              /\ page'.currentStreamId = page.currentStreamId
              /\ page'.cancels = page.cancels]_vars


\* C38 as claimed: when the process-immediately timer of a prompt modal
\* fires after that modal was closed or another modal took its place, no
\* processWithLLM is sent.
C38_TimerStartsOnlyOwnModal ==
    [][\A t \in page.timers, d \in BOOLEAN :
          (/\ t.kind = "process"
           /\ t.modal # page.currentModal
           /\ TimerFires(t, d)) =>
              page'.pending = page.pending]_vars

(***************************************************************************)
(* CloseSpec: the sessions of a page from their start to their end.        *)
(*                                                                         *)
(* The page of StartSpec with, in addition, the responses of its           *)
(* processWithLLM calls and every way a modal is closed: the direct calls  *)
(* of closeModal (closeModal of PageSpec: Escape in the prompt input, the  *)
(* Close button of the error modal), the close button of a ShadowModal,    *)
(* Escape with the focus in the document, the Copy button of a rendered    *)
(* response, and the timers.                                               *)
(***************************************************************************)
\* the close button of modal m, set up by setupCloseHandlers: onClose(),
\* which is closeModal() of the page, then destroy() of the modal itself
CloseButtonClicked(m, delivered) ==
    /\ m \in DOMAIN page.modals
    /\ page' = [Closed(page, delivered) EXCEPT !.modals = Remove(@, m)]
    /\ UNCHANGED <<activeStreams, nReqs, reqs, answered, nChunks, cancelReply, build>>

\* Escape with the focus outside the modal's inputs: the keydown listeners
\* on document run, for every modal not destroyed the one set up by
\* setupCloseHandlers (onClose(), destroy()) and the handleKeyDown of the
\* page (closeModal() if a modal is current)
EscapePressed(delivered) ==
    /\ DOMAIN page.modals # {}
    /\ page' = [Closed(page, delivered) EXCEPT !.modals = [m \in {} |-> 0]]
    /\ UNCHANGED <<activeStreams, nReqs, reqs, answered, nChunks, cancelReply, build>>

\* the Copy button of modal m, visible since processWithProfile showed it
\* and as long as the modal is there: the response is copied and
\* closeModal() is called
CopyAndClose(m, delivered) ==
    /\ m \in page.copy
    /\ m \in DOMAIN page.modals
    /\ page' = Closed(page, delivered)
    /\ UNCHANGED <<activeStreams, nReqs, reqs, answered, nChunks, cancelReply, build>>

CloseNext ==
    \/ \E t \in BOOLEAN, n \in 0..MaxProfiles, pi \in BOOLEAN :
           HandleProcessContent(t, n, pi)
    \/ \E m \in DOMAIN page.modals, pi \in BOOLEAN, by \in BOOLEAN, d \in BOOLEAN :
           SelectProfile(m, pi, by, d)
    \/ \E k \in DOMAIN page.calls, n \in 0..MaxProfiles : SelectedProfileShown(k, n)
    \/ \E m \in DOMAIN page.modals : ProcessClicked(m)
    \/ \E t \in page.timers, d \in BOOLEAN : TimerFires(t, d)
    \/ \E p \in page.pending : \E r \in Responses(p.streamId) : ResponseArrives(p, r)
    \/ \E d \in BOOLEAN : closeModal(d)
    \/ \E m \in DOMAIN page.modals, d \in BOOLEAN : CloseButtonClicked(m, d)
    \/ \E d \in BOOLEAN : EscapePressed(d)
    \/ \E m \in page.copy, d \in BOOLEAN : CopyAndClose(m, d)

CloseSpec == StartInit /\ [][CloseNext]_vars

(***************************************************************************)
(* Claims about the end of a session, checked under CloseSpec.             *)
(***************************************************************************)
\* C35: whatever close buttons, Escape presses, copy-and-close actions and
\* timers have acted, no two cancelStream messages the page has sent carry
\* the same stream id.
C35_OneCancelPerStream ==
    \A j, k \in 1..Len(page.cancels) :
        page.cancels[j].streamId = page.cancels[k].streamId => j = k

\* C35 witness: two streams were started and the page has sent one
\* cancelStream for each; no modal is left and no timer is waiting.
C35_Witness ==
    /\ Len(page.cancels) = 2
    /\ page.cancels[1].streamId = SuppliedId(1)
    /\ page.cancels[2].streamId = SuppliedId(2)
    /\ page.currentModal = 0
    /\ DOMAIN page.modals = {}
    /\ page.timers = {}

\* C36: whenever the current stream id of the page is set, a modal is
\* current, so that closeModal does send the cancelStream of that stream;
\* no state has the current modal null and the stream id still set.
C36_StreamIdImpliesModal ==
    page.currentStreamId # NoId =>
        /\ page.currentModal # 0
        /\ \A d \in BOOLEAN :
               Closed(page, d).cancels =
                   Append(page.cancels, [streamId |-> page.currentStreamId,
                                         delivered |-> d])

\* C36 witness: the first session was closed while its stream was current,
\* its process-immediately timer has run, and the second session has its
\* stream current in the second modal.
C36_Witness ==
    /\ page.currentModal = 2
    /\ page.currentStreamId = SuppliedId(2)
    /\ 1 \notin DOMAIN page.modals
    /\ page.kinds[1].processImmediately
    /\ page.timers = {}
    /\ Len(page.cancels) = 1
    /\ page.cancels[1].streamId = SuppliedId(1)


(***************************************************************************)
(* OrderSpec: the messages of one session on their way to the background.  *)
(*                                                                         *)
(* The page of PageSpec opens modals, starts streams and closes; the       *)
(* background receives the processWithLLM message of the page's first      *)
(* stream and the cancelStream message the page sent for it, each once and *)
(* in either order: the two come from separate sendMessage calls.          *)
(* cancelReply is NoReply until the cancelStream has been handled.         *)
(***************************************************************************)
\* the cancelStream the page sent for its first stream is handled, whether
\* or not the processWithLLM message of that stream has been
CancelHandled(k) ==
    /\ cancelReply = NoReply
    /\ page.cancels[k].delivered
    /\ page.cancels[k].streamId = SuppliedId(1)
    /\ HandleCancelStream(page.cancels[k].streamId)

OrderNext ==
    \/ ShowPromptModal
    \/ ProcessWithProfile
    \/ \E delivered \in BOOLEAN : closeModal(delivered)
    \/ \E m \in Messages(1) : RequestReceived(m)
    \/ \E k \in 1..Len(page.cancels) : CancelHandled(k)
    \/ \E i \in DOMAIN reqs : StreamOpened(i)
    \/ \E i \in DOMAIN reqs, e \in ProviderErrors : ProviderRejects(i, e)
    \/ \E i \in DOMAIN reqs : \E c \in Chunks(Len(reqs[i].frags) + 1) : StreamChunk(i, c)
    \/ \E i \in DOMAIN reqs : StreamEnds(i)
    \/ \E i \in DOMAIN reqs, e \in ProviderErrors : StreamFails(i, e)

OrderSpec == PageInit /\ [][OrderNext]_vars

(***************************************************************************)
(* Claims about the order of a session's messages, checked under OrderSpec. *)
(***************************************************************************)
\* C33 as claimed: once the background has handled both the processWithLLM
\* message and the cancelStream message of stream S, in whichever order, the
\* request of S sends no further streamUpdate.
C33_CancelInEitherOrder ==
    [][(/\ nReqs >= 1
        /\ cancelReply.streamId = SuppliedId(1))
          => \A i \in DOMAIN reqs \cap DOMAIN reqs' :
                 reqs[i].streamId = SuppliedId(1) =>
                     reqs'[i].updates = reqs[i].updates]_vars


(***************************************************************************)
(* MenuSpec: the runs of setupContextMenus.                                *)
(*                                                                         *)
(* page is the browser as the background sees it: page.stored is the       *)
(* length of the stored profile list, page.item says whether the context   *)
(* menu item 'quickllm-process' exists, page.written counts the saves of   *)
(* the settings pages (saveProfiles, ProfileEditor.saveProfile) whose      *)
(* storage.local.set has settled and whose profilesUpdated message is not  *)
(* sent yet, page.notices counts the profilesUpdated messages sent and not *)
(* yet handled, page.rejected counts the runs of setupContextMenus whose   *)
(* storage.local.get was rejected.  reqs holds the runs of                 *)
(* setupContextMenus in flight, nReqs counts the runs started.  A run is   *)
(* suspended at its await of storage.local.get and between its call of     *)
(* contextMenus.removeAll and the callback; other runs and the settings    *)
(* pages act in between.  The browser serves the calls of the background   *)
(* in the order they were made: of two runs, the one started first has its *)
(* get settled first, resumes first, has its removeAll carried out first   *)
(* and its callback run first.                                             *)
(***************************************************************************)
\* a run of setupContextMenus that has called browser.storage.local.get
NewRun == [pc |-> "reading", hasProfiles |-> FALSE]

\* the constructor has run init(), which starts the first run
MenuInit ==
    /\ activeStreams = [s \in {} |-> 0]
    /\ nReqs = 1
    /\ reqs = [i \in {1} |-> NewRun]
    /\ answered = NoRequest
    /\ nChunks = 0
    /\ cancelReply = NoReply
    /\ build = NoBuild
    /\ \E n \in 0..MaxProfiles :
           page = [stored |-> n, item |-> FALSE, written |-> 0, notices |-> 0,
                   rejected |-> 0]

\* saveProfiles of a settings page up to the end of its await: the storage
\* carries out storage.local.set of a list of n profiles
ProfilesWritten(n) ==
    /\ nReqs + page.written + page.notices < MaxReqs
    /\ page' = [page EXCEPT !.stored = n, !.written = @ + 1]
    /\ UNCHANGED <<activeStreams, nReqs, reqs, answered, nChunks, cancelReply, build>>

\* ProfileEditor.saveProfile up to the end of its await of setStorageData
\* when storage.local.set is rejected: setStorageData returns false, nothing
\* is stored and saveProfile goes on to send profilesUpdated
ProfilesWriteFailed ==
    /\ nReqs + page.written + page.notices < MaxReqs
    /\ page' = [page EXCEPT !.written = @ + 1]
    /\ UNCHANGED <<activeStreams, nReqs, reqs, answered, nChunks, cancelReply, build>>

\* a save after its await: the profilesUpdated message is sent
ProfilesUpdatedSent ==
    /\ page.written > 0
    /\ page' = [page EXCEPT !.written = @ - 1, !.notices = @ + 1]
    /\ UNCHANGED <<activeStreams, nReqs, reqs, answered, nChunks, cancelReply, build>>

\* case 'profilesUpdated': this.setupContextMenus()
ProfilesUpdatedReceived ==
    /\ page.notices > 0
    /\ nReqs' = nReqs + 1
    /\ reqs' = Put(reqs, nReqs + 1, NewRun)
    /\ page' = [page EXCEPT !.notices = @ - 1]
    /\ UNCHANGED <<activeStreams, answered, nChunks, cancelReply, build>>

\* the onInstalled and onStartup listeners: this.setupContextMenus()
InstalledOrStarted ==
    /\ nReqs + page.written + page.notices < MaxReqs
    /\ nReqs' = nReqs + 1
    /\ reqs' = Put(reqs, nReqs + 1, NewRun)
    /\ UNCHANGED <<activeStreams, answered, nChunks, cancelReply, build, page>>

\* the storage answers the get of run i: profiles.length > 0 as stored now
StorageRead(i) ==
    /\ \A j \in DOMAIN reqs : j < i => reqs[j].pc \notin {"reading"}
    /\ reqs[i].pc = "reading"
    /\ reqs' = [reqs EXCEPT ![i] = [pc |-> "read", hasProfiles |-> page.stored > 0]]
    /\ UNCHANGED <<activeStreams, nReqs, answered, nChunks, cancelReply, build, page>>

\* the get of run i is rejected: the run ends at its await, it calls neither
\* removeAll nor create
StorageReadFails(i) ==
    /\ \A j \in DOMAIN reqs : j < i => reqs[j].pc \notin {"reading"}
    /\ reqs[i].pc = "reading"
    /\ reqs' = Remove(reqs, i)
    /\ page' = [page EXCEPT !.rejected = @ + 1]
    /\ UNCHANGED <<activeStreams, nReqs, answered, nChunks, cancelReply, build>>

\* run i resumes after its await and calls browser.contextMenus.removeAll
RemoveAllCalled(i) ==
    /\ \A j \in DOMAIN reqs : j < i => reqs[j].pc \notin {"reading", "read"}
    /\ reqs[i].pc = "read"
    /\ reqs' = [reqs EXCEPT ![i].pc = "removing"]
    /\ UNCHANGED <<activeStreams, nReqs, answered, nChunks, cancelReply, build, page>>

\* the browser removes the context menu items for run i
AllRemoved(i) ==
    /\ \A j \in DOMAIN reqs : j < i => reqs[j].pc \notin {"reading", "read", "removing"}
    /\ reqs[i].pc = "removing"
    /\ reqs' = [reqs EXCEPT ![i].pc = "removed"]
    /\ page' = [page EXCEPT !.item = FALSE]
    /\ UNCHANGED <<activeStreams, nReqs, answered, nChunks, cancelReply, build>>

\* the callback of removeAll of run i: if (hasProfiles) contextMenus.create
RemoveAllCallback(i) ==
    /\ \A j \in DOMAIN reqs : j < i => reqs[j].pc \notin {"reading", "read", "removing", "removed"}
    /\ reqs[i].pc = "removed"
    /\ reqs' = Remove(reqs, i)
    /\ page' = [page EXCEPT !.item = IF reqs[i].hasProfiles THEN TRUE ELSE @]
    /\ UNCHANGED <<activeStreams, nReqs, answered, nChunks, cancelReply, build>>

MenuNext ==
    \/ ProfilesWriteFailed
    \/ \E n \in 0..MaxProfiles : ProfilesWritten(n)
    \/ ProfilesUpdatedSent
    \/ ProfilesUpdatedReceived
    \/ InstalledOrStarted
    \/ \E i \in DOMAIN reqs : StorageRead(i)
    \/ \E i \in DOMAIN reqs : StorageReadFails(i)
    \/ \E i \in DOMAIN reqs : RemoveAllCalled(i)
    \/ \E i \in DOMAIN reqs : AllRemoved(i)
    \/ \E i \in DOMAIN reqs : RemoveAllCallback(i)

MenuSpec == MenuInit /\ [][MenuNext]_vars

(***************************************************************************)
(* Claims about the context menu, checked under MenuSpec.                  *)
(***************************************************************************)
\* C37 as claimed: when every run of setupContextMenus that was started has
\* finished, none of them with its get rejected, no save stands between its
\* write and its message and no profilesUpdated message is on its way, the
\* context menu item exists if and only if the stored profile list is not
\* empty.
C37_ContextMenuConsistent ==
    (/\ DOMAIN reqs = {}
     /\ page.written = 0
     /\ page.notices = 0
     /\ page.rejected = 0) =>
        (page.item <=> page.stored > 0)


(***************************************************************************)
(* ImportSpec: the profile list of the settings page.                      *)
(*                                                                         *)
(* page is the settings page: page.profiles is this.profiles,              *)
(* page.rendered the profiles whose items renderProfiles and Sortable have *)
(* left in the list of the document, page.stored the profile list in       *)
(* browser.storage.local, page.status the message showStatus showed last.  *)
(* reqs holds the operations of the page that wait for an answer, nReqs    *)
(* counts the operations started: an import waits for file.text()          *)
(* ("reading") and then for storage.local.set ("saving"), a deletion and a *)
(* reordering wait for storage.local.set, an export waits for              *)
(* storage.local.get ("loading"), a change of the theme waits for the      *)
(* storage.local.set of the theme setting ("theme").  An operation in      *)
(* "saving" carries the list it handed to storage.local.set, a change of   *)
(* the theme carries the theme selected in place of a file.  Any number of *)
(* operations can be in flight, and their answers come in any order.  The  *)
(* page is taken from the end of init(), which registers the listeners     *)
(* after it has loaded the profiles.  A profile list is a                  *)
(* sequence of values; an object is <<"obj", f>> with f the function from  *)
(* its keys to their values.                                               *)
(***************************************************************************)
Null == <<"null", 0>>
Undefined == <<"undefined", 0>>
Obj(f) == <<"obj", f>>

\* the texts of the files the model imports
ImportFiles ==
    { "",
      "{not json",
      "null",
      "{\"profiles\":[]}",
      "[]",
      "[{\"id\":\"p1\",\"name\":\"A\",\"type\":\"openai\",\"model\":\"m\",\"apiKey\":\"Mg1e\"}]",
      "[{\"id\":\"p1\",\"name\":\"A\",\"type\":\"openai\",\"model\":\"m\",\"apiKey\":\"Mg1e\"},{\"id\":\"p2\",\"name\":\"B\",\"type\":\"ollama\",\"model\":\"m\",\"apiKey\":null}]",
      "[{\"id\":\"p3\",\"name\":\"C\",\"type\":\"ollama\",\"model\":\"m\"}]",
      "[{\"id\":\"p4\",\"name\":\"D\",\"type\":\"openai\",\"model\":\"m\",\"apiKey\":\"not base64!\"}]",
      "[{\"id\":\"p1\",\"name\":\"A\",\"type\":\"openai\",\"model\":\"m\",\"apiKey\":\"Mg1e\"},{\"id\":7,\"name\":\"B\",\"type\":\"ollama\",\"model\":\"m\"}]",
      "[null]",
      "[{\"id\":\"p1\",\"name\":\"A\",\"type\":\"openai\"}]",
      "[{\"id\":\"p1\",\"name\":\"A\",\"type\":\"openai\",\"model\":\"m\",\"apiKey\":5}]" }

\* JSON.parse(text) for those texts: a throw (ok = FALSE) or the value, of
\* which isArray is Array.isArray and elements the elements of an array
ParseImport(text) ==
    CASE text = "null" ->
           [ok |-> TRUE, isArray |-> FALSE, elements |-> <<>>]
      [] text = "{\"profiles\":[]}" ->
           [ok |-> TRUE, isArray |-> FALSE, elements |-> <<>>]
      [] text = "[]" ->
           [ok |-> TRUE, isArray |-> TRUE,
            elements |-> <<>>]
      [] text = "[{\"id\":\"p1\",\"name\":\"A\",\"type\":\"openai\",\"model\":\"m\",\"apiKey\":\"Mg1e\"}]" ->
           [ok |-> TRUE, isArray |-> TRUE,
            elements |-> <<Obj([id |-> Str("p1"), name |-> Str("A"), type |-> Str("openai"),
                         model |-> Str("m"), apiKey |-> Str("Mg1e")])>>]
      [] text = "[{\"id\":\"p1\",\"name\":\"A\",\"type\":\"openai\",\"model\":\"m\",\"apiKey\":\"Mg1e\"},{\"id\":\"p2\",\"name\":\"B\",\"type\":\"ollama\",\"model\":\"m\",\"apiKey\":null}]" ->
           [ok |-> TRUE, isArray |-> TRUE,
            elements |-> <<Obj([id |-> Str("p1"), name |-> Str("A"), type |-> Str("openai"),
                         model |-> Str("m"), apiKey |-> Str("Mg1e")]),
                         Obj([id |-> Str("p2"), name |-> Str("B"), type |-> Str("ollama"),
                         model |-> Str("m"), apiKey |-> Null])>>]
      [] text = "[{\"id\":\"p3\",\"name\":\"C\",\"type\":\"ollama\",\"model\":\"m\"}]" ->
           [ok |-> TRUE, isArray |-> TRUE,
            elements |-> <<Obj([id |-> Str("p3"), name |-> Str("C"), type |-> Str("ollama"),
                         model |-> Str("m")])>>]
      [] text = "[{\"id\":\"p4\",\"name\":\"D\",\"type\":\"openai\",\"model\":\"m\",\"apiKey\":\"not base64!\"}]" ->
           [ok |-> TRUE, isArray |-> TRUE,
            elements |-> <<Obj([id |-> Str("p4"), name |-> Str("D"), type |-> Str("openai"),
                         model |-> Str("m"), apiKey |-> Str("not base64!")])>>]
      [] text = "[{\"id\":\"p1\",\"name\":\"A\",\"type\":\"openai\",\"model\":\"m\",\"apiKey\":\"Mg1e\"},{\"id\":7,\"name\":\"B\",\"type\":\"ollama\",\"model\":\"m\"}]" ->
           [ok |-> TRUE, isArray |-> TRUE,
            elements |-> <<Obj([id |-> Str("p1"), name |-> Str("A"), type |-> Str("openai"),
                         model |-> Str("m"), apiKey |-> Str("Mg1e")]),
                         Obj([id |-> Num(7), name |-> Str("B"), type |-> Str("ollama"),
                         model |-> Str("m")])>>]
      [] text = "[null]" ->
           [ok |-> TRUE, isArray |-> TRUE,
            elements |-> <<Null>>]
      [] text = "[{\"id\":\"p1\",\"name\":\"A\",\"type\":\"openai\"}]" ->
           [ok |-> TRUE, isArray |-> TRUE,
            elements |-> <<Obj([id |-> Str("p1"), name |-> Str("A"), type |-> Str("openai")])>>]
      [] text = "[{\"id\":\"p1\",\"name\":\"A\",\"type\":\"openai\",\"model\":\"m\",\"apiKey\":5}]" ->
           [ok |-> TRUE, isArray |-> TRUE,
            elements |-> <<Obj([id |-> Str("p1"), name |-> Str("A"), type |-> Str("openai"),
                         model |-> Str("m"), apiKey |-> Num(5)])>>]
      [] OTHER ->
           [ok |-> FALSE, isArray |-> FALSE, elements |-> <<>>]

\* value && ...
Truthy(v) == v \notin {Null, Undefined, Str(""), Num(0), Bool(FALSE)}

\* profile.key of a value that is not null or undefined
Prop(v, key) ==
    IF v[1] = "obj" /\ key \in DOMAIN v[2] THEN v[2][key] ELSE Undefined

\* typeof value === 'string'
IsString(v) == v[1] = "str"

\* isValidProfile of handleFileImport
IsValidProfile(profile) ==
    /\ Truthy(profile)
    /\ IsString(Prop(profile, "id"))
    /\ IsString(Prop(profile, "name"))
    /\ IsString(Prop(profile, "type"))
    /\ IsString(Prop(profile, "model"))
    /\ \/ IsString(Prop(profile, "apiKey"))
       \/ Prop(profile, "apiKey") = Null
       \/ Prop(profile, "apiKey") = Undefined

\* a check that is content with one valid element
SomeValid(elements) ==
    \E k \in 1..Len(elements) : IsValidProfile(elements[k])

\* importedProfiles.every(isValidProfile)
EveryValid(elements) ==
    \A k \in 1..Len(elements) : IsValidProfile(elements[k])

\* decryptApiKey: a falsy key is returned as it is, and so is a key that
\* atob rejects; else the key is decoded and XORed with ENCRYPTION_KEY
decryptApiKey(encryptedApiKey) ==
    IF ~Truthy(encryptedApiKey) THEN encryptedApiKey
    ELSE IF encryptedApiKey = Str("Mg1e") THEN Str("sk1")
    ELSE encryptedApiKey

\* ({ ...profile, apiKey: this.decryptApiKey(profile.apiKey) }); a property
\* that is undefined is not stored
Decrypted(profile) ==
    LET apiKey == decryptApiKey(Prop(profile, "apiKey"))
        keys == IF apiKey = Undefined THEN DOMAIN profile[2] \ {"apiKey"}
                ELSE DOMAIN profile[2] \cup {"apiKey"}
    IN Obj([k \in keys |-> IF k = "apiKey" THEN apiKey ELSE profile[2][k]])

DecryptedProfiles(elements) ==
    [k \in 1..Len(elements) |-> Decrypted(elements[k])]

\* the profile lists a settings page can find stored when it is opened
StoredLists ==
    { <<>>,
      <<Obj([id |-> Str("p0"), name |-> Str("Z"), type |-> Str("openai"),
             model |-> Str("m"), apiKey |-> Str("sk0")])>>,
      <<Obj([id |-> Str("p0"), name |-> Str("Z"), type |-> Str("openai"),
             model |-> Str("m"), apiKey |-> Str("sk0")]),
        Obj([id |-> Str("p9"), name |-> Str("Y"), type |-> Str("ollama"),
             model |-> Str("m")])>> }

\* an operation of the page that waits for an answer
Operation(kind, pc, file, list) ==
    [kind |-> kind, pc |-> pc, file |-> file, list |-> list]

\* the elements of a list that are objects: profile.id of any other element
\* of these lists (undefined, null) throws a TypeError
AllObjects(list) == \A k \in 1..Len(list) : list[k][1] = "obj"

\* the elements before the first one that is no object
RECURSIVE ObjectPrefix(_)
ObjectPrefix(list) ==
    IF list = <<>> \/ Head(list)[1] # "obj" THEN <<>>
    ELSE <<Head(list)>> \o ObjectPrefix(Tail(list))

\* renderProfiles(): the list of the document is cleared and an item is
\* appended for every profile, until createProfileElement throws
renderProfiles(pg) == [pg EXCEPT !.rendered = ObjectPrefix(pg.profiles)]

\* init(): this.profiles = await loadProfiles(), which is the stored list
\* or [] when storage.local.get rejects, then renderProfiles() and
\* handleHashNavigation(), which shows a message for the two notifications
\* of the profile editor and none for a hash that is empty or names a tab
ImportInit ==
    /\ activeStreams = [s \in {} |-> 0]
    /\ nReqs = 0
    /\ reqs = [i \in {} |-> NoRequest]
    /\ answered = NoRequest
    /\ nChunks = 0
    /\ cancelReply = NoReply
    /\ build = NoBuild
    /\ \E l \in StoredLists, loaded \in BOOLEAN,
          hash \in {"", "profile-created", "profile-edited", "profiles"} :
           page = renderProfiles(
                      [profiles |-> IF loaded THEN l ELSE <<>>,
                       rendered |-> <<>>,
                       stored |-> l,
                       status |-> CASE hash = "profile-created" ->
                                           "Profile created successfully."
                                    [] hash = "profile-edited" ->
                                           "Profile updated successfully."
                                    [] OTHER -> ""])

\* list.filter(p => p.id !== profileId)
RECURSIVE WithoutId(_, _)
WithoutId(list, profileId) ==
    IF list = <<>> THEN <<>>
    ELSE IF Prop(Head(list), "id") = profileId
    THEN WithoutId(Tail(list), profileId)
    ELSE <<Head(list)>> \o WithoutId(Tail(list), profileId)

\* const item = list.splice(oldIndex, 1)[0]; list.splice(newIndex, 0, item)
\* with the indices counted from 1: an index past the end removes nothing,
\* which makes item undefined, and inserts at the end
Moved(list, oldIndex, newIndex) ==
    LET item == IF oldIndex <= Len(list) THEN list[oldIndex] ELSE Undefined
        rest == IF oldIndex <= Len(list)
                THEN SubSeq(list, 1, oldIndex - 1)
                         \o SubSeq(list, oldIndex + 1, Len(list))
                ELSE list
        at == IF newIndex - 1 <= Len(rest) THEN newIndex - 1 ELSE Len(rest)
    IN SubSeq(rest, 1, at) \o <<item>> \o SubSeq(rest, at + 1, Len(rest))

\* what storage.local.set can store for a list: an element that is
\* undefined is kept by a structured clone and becomes null in a JSON copy
StoredForms(list) ==
    { list, [k \in 1..Len(list) |-> IF list[k] = Undefined THEN Null ELSE list[k]] }

\* the change event of the file input: handleFileImport up to await file.text()
FileSelected(text) ==
    /\ nReqs < MaxReqs
    /\ nReqs' = nReqs + 1
    /\ reqs' = Put(reqs, nReqs + 1, Operation("import", "reading", text, <<>>))
    /\ UNCHANGED <<activeStreams, answered, nChunks, cancelReply, build, page>>

\* file.text() of import i rejects: the outer catch shows its message
FileUnreadable(i) ==
    /\ reqs[i].pc = "reading"
    /\ reqs' = Remove(reqs, i)
    /\ page' = [page EXCEPT !.status = "Error reading file. Please try again."]
    /\ UNCHANGED <<activeStreams, nReqs, answered, nChunks, cancelReply, build>>

\* handleFileImport of import i from the text of the file to await
\* this.saveProfiles(): parse, Array.isArray, every(isValidProfile),
\* confirm(), the replacement of this.profiles and the call of
\* storage.local.set
FileRead(i, confirmed) ==
    /\ reqs[i].pc = "reading"
    /\ LET parsed == ParseImport(reqs[i].file)
       IN IF ~parsed.ok
          THEN /\ reqs' = Remove(reqs, i)
               /\ page' = [page EXCEPT !.status =
                      "Invalid JSON file. Please select a valid profiles export file."]
          ELSE IF ~parsed.isArray
          THEN /\ reqs' = Remove(reqs, i)
               /\ page' = [page EXCEPT !.status =
                      "Invalid profiles file format. Expected an array of profiles."]
          ELSE IF ~EveryValid(parsed.elements)
          THEN /\ reqs' = Remove(reqs, i)
               /\ page' = [page EXCEPT !.status =
                      "Invalid profiles file format. Some profiles are missing required fields."]
          ELSE IF ~confirmed
          THEN /\ reqs' = Remove(reqs, i)
               /\ page' = page
          ELSE /\ reqs' = [reqs EXCEPT ![i] =
                      Operation("import", "saving", reqs[i].file,
                                DecryptedProfiles(parsed.elements))]
               /\ page' = [page EXCEPT !.profiles = DecryptedProfiles(parsed.elements)]
    /\ UNCHANGED <<activeStreams, nReqs, answered, nChunks, cancelReply, build>>

\* storage.local.set of import i resolves: the list is stored,
\* profilesUpdated is sent, the profiles are rendered and the success is
\* shown; a throw of renderProfiles reaches the outer catch
ProfilesStored(i, stored) ==
    /\ reqs[i].kind = "import"
    /\ reqs[i].pc = "saving"
    /\ stored \in StoredForms(reqs[i].list)
    /\ reqs' = Remove(reqs, i)
    /\ page' = [renderProfiles(page) EXCEPT
                   !.stored = stored,
                   !.status = IF AllObjects(page.profiles)
                              THEN "Successfully imported "
                                       \o ToString(Len(reqs[i].list))
                                       \o " profiles."
                              ELSE "Error reading file. Please try again."]
    /\ UNCHANGED <<activeStreams, nReqs, answered, nChunks, cancelReply, build>>

\* storage.local.set of import i rejects: saveProfiles rethrows and the
\* outer catch shows its message
StoreFails(i) ==
    /\ reqs[i].kind = "import"
    /\ reqs[i].pc = "saving"
    /\ reqs' = Remove(reqs, i)
    /\ page' = [page EXCEPT !.status = "Error reading file. Please try again."]
    /\ UNCHANGED <<activeStreams, nReqs, answered, nChunks, cancelReply, build>>

\* the ids of the profiles that have an item, with its buttons, in the
\* list of the document
RenderedIds == {Prop(page.rendered[k], "id") : k \in 1..Len(page.rendered)}

\* the delete button of the item of profileId: deleteProfile up to await
\* this.saveProfiles().  Nothing happens when confirm() is declined, or
\* when the filter throws on an element that is no object
DeleteClicked(profileId, confirmed) ==
    /\ nReqs < MaxReqs
    /\ profileId \in RenderedIds
    /\ IF confirmed /\ AllObjects(page.profiles)
       THEN /\ nReqs' = nReqs + 1
            /\ reqs' = Put(reqs, nReqs + 1,
                           Operation("delete", "saving", "",
                                     WithoutId(page.profiles, profileId)))
            /\ page' = [page EXCEPT !.profiles = WithoutId(@, profileId)]
       ELSE UNCHANGED <<nReqs, reqs, page>>
    /\ UNCHANGED <<activeStreams, answered, nChunks, cancelReply, build>>

\* storage.local.set of deletion i resolves: the list is stored,
\* profilesUpdated is sent, the profiles are rendered and the success is
\* shown unless renderProfiles throws
ProfileDeleted(i, stored) ==
    /\ reqs[i].kind = "delete"
    /\ stored \in StoredForms(reqs[i].list)
    /\ reqs' = Remove(reqs, i)
    /\ page' = [renderProfiles(page) EXCEPT
                   !.stored = stored,
                   !.status = IF AllObjects(page.profiles)
                              THEN "Profile deleted successfully."
                              ELSE @]
    /\ UNCHANGED <<activeStreams, nReqs, answered, nChunks, cancelReply, build>>

\* onEnd of Sortable after the item at oldIndex of the document's list was
\* dropped at newIndex: this.profiles is reordered by the same indices and
\* this.saveProfiles() is called, its promise left alone
SortEnded(oldIndex, newIndex) ==
    /\ nReqs < MaxReqs
    /\ oldIndex \in 1..Len(page.rendered)
    /\ newIndex \in 1..Len(page.rendered)
    /\ nReqs' = nReqs + 1
    /\ reqs' = Put(reqs, nReqs + 1,
                   Operation("sort", "saving", "",
                             Moved(page.profiles, oldIndex, newIndex)))
    /\ page' = [page EXCEPT !.profiles = Moved(@, oldIndex, newIndex),
                            !.rendered = Moved(@, oldIndex, newIndex)]
    /\ UNCHANGED <<activeStreams, answered, nChunks, cancelReply, build>>

\* storage.local.set of reordering i resolves: the list is stored and
\* profilesUpdated is sent
OrderStored(i, stored) ==
    /\ reqs[i].kind = "sort"
    /\ stored \in StoredForms(reqs[i].list)
    /\ reqs' = Remove(reqs, i)
    /\ page' = [page EXCEPT !.stored = stored]
    /\ UNCHANGED <<activeStreams, nReqs, answered, nChunks, cancelReply, build>>

\* storage.local.set of deletion or reordering i rejects: saveProfiles
\* rethrows, and nobody handles the rejection
SaveRejected(i) ==
    /\ reqs[i].kind \in {"delete", "sort"}
    /\ reqs' = Remove(reqs, i)
    /\ UNCHANGED <<activeStreams, nReqs, answered, nChunks, cancelReply, build, page>>

\* the Export button: exportProfiles up to await loadProfiles()
ExportClicked ==
    /\ nReqs < MaxReqs
    /\ nReqs' = nReqs + 1
    /\ reqs' = Put(reqs, nReqs + 1, Operation("export", "loading", "", <<>>))
    /\ UNCHANGED <<activeStreams, answered, nChunks, cancelReply, build, page>>

\* loadProfiles of export i returns the stored list, or [] when
\* storage.local.get rejects: this.profiles is replaced, and the file is
\* offered unless the list is empty or the map throws on an element that
\* is no object
ProfilesExported(i, loaded) ==
    /\ reqs[i].kind = "export"
    /\ reqs' = Remove(reqs, i)
    /\ LET profiles == IF loaded THEN page.stored ELSE <<>>
       IN page' = [page EXCEPT
                      !.profiles = profiles,
                      !.status = IF profiles = <<>> THEN "No profiles to export."
                                 ELSE IF AllObjects(profiles)
                                 THEN "Successfully exported "
                                          \o ToString(Len(profiles))
                                          \o " profiles."
                                 ELSE @]
    /\ UNCHANGED <<activeStreams, nReqs, answered, nChunks, cancelReply, build>>

\* getThemeDisplayName(theme)
getThemeDisplayName(theme) ==
    CASE theme = "auto" -> "Auto (System)"
      [] theme = "light" -> "Light"
      [] theme = "dark" -> "Dark"
      [] OTHER -> "Unknown"

\* the change event of the theme selector, for one of its values:
\* handleThemeChange(theme) up to its await, the theme setting handed to
\* storage.local.set
ThemeSelected(theme) ==
    /\ nReqs < MaxReqs
    /\ nReqs' = nReqs + 1
    /\ reqs' = Put(reqs, nReqs + 1, Operation("theme", "theme", theme, <<>>))
    /\ UNCHANGED <<activeStreams, answered, nChunks, cancelReply, build, page>>

\* handleThemeChange of change i after its await: success is false when
\* the storage rejected the setting or applying the theme threw
ThemeSaved(i, success) ==
    /\ reqs[i].kind = "theme"
    /\ reqs' = Remove(reqs, i)
    /\ page' = [page EXCEPT !.status =
                   IF success
                   THEN "Theme changed to " \o getThemeDisplayName(reqs[i].file) \o "."
                   ELSE "Error saving theme setting. Please try again."]
    /\ UNCHANGED <<activeStreams, nReqs, answered, nChunks, cancelReply, build>>

\* the ids a profile of these lists can have
ProfileIds == {Str("p0"), Str("p1"), Str("p2"), Str("p3"), Str("p4"), Str("p9")}

ImportNext ==
    \/ \E text \in ImportFiles : FileSelected(text)
    \/ \E i \in DOMAIN reqs : FileUnreadable(i)
    \/ \E i \in DOMAIN reqs, confirmed \in BOOLEAN : FileRead(i, confirmed)
    \/ \E i \in DOMAIN reqs : \E l \in StoredForms(reqs[i].list) : ProfilesStored(i, l)
    \/ \E i \in DOMAIN reqs : StoreFails(i)
    \/ \E id \in ProfileIds, confirmed \in BOOLEAN : DeleteClicked(id, confirmed)
    \/ \E i \in DOMAIN reqs : \E l \in StoredForms(reqs[i].list) : ProfileDeleted(i, l)
    \/ \E o \in 1..Len(page.rendered), n \in 1..Len(page.rendered) : SortEnded(o, n)
    \/ \E i \in DOMAIN reqs : \E l \in StoredForms(reqs[i].list) : OrderStored(i, l)
    \/ \E i \in DOMAIN reqs : SaveRejected(i)
    \/ ExportClicked
    \/ \E i \in DOMAIN reqs, loaded \in BOOLEAN : ProfilesExported(i, loaded)
    \/ \E theme \in {"auto", "light", "dark"} : ThemeSelected(theme)
    \/ \E i \in DOMAIN reqs, success \in BOOLEAN : ThemeSaved(i, success)

ImportSpec == ImportInit /\ [][ImportNext]_vars

(***************************************************************************)
(* Claims about the import of profiles, checked under ImportSpec.          *)
(***************************************************************************)
\* the files that are a JSON array whose elements all have a string id,
\* name, type and model and an apiKey that is a string, null or missing
AcceptableFiles ==
    { "[]",
      "[{\"id\":\"p1\",\"name\":\"A\",\"type\":\"openai\",\"model\":\"m\",\"apiKey\":\"Mg1e\"}]",
      "[{\"id\":\"p1\",\"name\":\"A\",\"type\":\"openai\",\"model\":\"m\",\"apiKey\":\"Mg1e\"},{\"id\":\"p2\",\"name\":\"B\",\"type\":\"ollama\",\"model\":\"m\",\"apiKey\":null}]",
      "[{\"id\":\"p3\",\"name\":\"C\",\"type\":\"ollama\",\"model\":\"m\"}]",
      "[{\"id\":\"p4\",\"name\":\"D\",\"type\":\"openai\",\"model\":\"m\",\"apiKey\":\"not base64!\"}]" }

\* C39: an import replaces the stored profile list only when its file is
\* a JSON array of elements with string id, name, type and model and a
\* string or absent apiKey, and the user has confirmed, and then by the
\* decrypted list of that file; when the file does not parse, is not an
\* array or has an invalid element, or when the user declines, the step
\* that finds it so ends the import and leaves both the stored list and the
\* list in memory as they were; and no other step of an import touches the
\* stored list.
C39_ImportAllOrNothing ==
    [][/\ \A i \in DOMAIN reqs, confirmed \in BOOLEAN :
              (FileRead(i, confirmed)
                 /\ ~(reqs[i].file \in AcceptableFiles /\ confirmed)) =>
                  /\ page'.stored = page.stored
                  /\ page'.profiles = page.profiles
                  /\ i \notin DOMAIN reqs'
       /\ \A i \in DOMAIN reqs, confirmed \in BOOLEAN :
              FileRead(i, confirmed) => page'.stored = page.stored
       /\ \A i \in DOMAIN reqs : \A l \in StoredForms(reqs[i].list) :
              ProfilesStored(i, l) =>
                  /\ reqs[i].file \in AcceptableFiles
                  /\ page'.stored =
                         DecryptedProfiles(ParseImport(reqs[i].file).elements)
       /\ \A text \in ImportFiles :
              FileSelected(text) => page' = page
       /\ \A i \in DOMAIN reqs :
              (FileUnreadable(i) \/ StoreFails(i)) => page'.stored = page.stored]_vars

\* C39 witness: over a stored profile, the one import of the page, of a
\* file with an invalid element, was refused, and both lists still hold
\* the stored profiles.
C39_Witness ==
    /\ nReqs = 1
    /\ DOMAIN reqs = {}
    /\ page.status = "Invalid profiles file format. Some profiles are missing required fields."
    /\ page.stored \in StoredLists \ {<<>>}
    /\ page.profiles = page.stored

====
